---- MODULE Spec2Model ----
(***************************************************************************)
(* The Simpla bytecode engine: the reference-counted string pool           *)
(* (string_memory.rs), the reference stack (reference_memory.rs) and the   *)
(* command loop of run_program (engine.rs) with its global memory,         *)
(* activation records and pending record.                                  *)
(*                                                                         *)
(* The program is the input of run_program.  It is not kept in the state:  *)
(* the command found at curr_block.code[index] is drawn from the command   *)
(* alphabet at every fetch, and so is the answer of the loop condition     *)
(* index < curr_block.code.len().  Every run of every program over the     *)
(* alphabet, within the bounds below, is a behaviour of Spec.              *)
(***************************************************************************)
EXTENDS Integers, Sequences, FiniteSets, TLC

\* ---------------------------------------------------------------- bounds
MaxSteps == 5      \* commands a run may execute
MaxStatic == 1     \* string constants the loader may have interned
MaxStrCells == 1   \* string cells of the global frame / of a function
NumFunc == 1       \* functions of the program: prog_mem.func.len()
MaxMemSteps == 5   \* commands a run of MemSpec may execute
MemCells == 2      \* cells of each kind in every frame of MemSpec
MaxUnits == 5      \* units of a stream of LoadSpec
MaxLabel == 1      \* label ids 0 .. MaxLabel in the streams of LoadSpec
MaxInit == 2       \* INIT headers declare 1 .. MaxInit integer cells
MaxChunks == 3     \* pieces of a byte stream of ByteSpec
MaxLine == 6       \* chars of a line of BufferSpec
MaxCalls == 5      \* calls on the StringBuffer of BufferSpec
MaxLines == 2      \* lines on the standard input of ReadSpec
MaxReads == 3      \* Input commands a run of ReadSpec may execute
MaxCode == 3       \* commands of a code of JumpSpec
MaxForCode == 6    \* commands of a code of ForSpec
MaxRun == 6        \* commands a run of JumpSpec or ForSpec may execute
MaxAluRun == 4     \* commands a run of AluSpec may execute
MaxCallCode == 4   \* commands in each block of a program of CallSpec
MaxCallRun == 8    \* commands a run of CallSpec may execute

\* 1 << 15: the bit of an address that selects the local frame
LOCAL_MASK == 32768

Strings == {"a", "b"}
RelOps == {"GreatEq", "Greater", "LessEq", "Less", "Equal", "NotEqual"}

VARIABLES
    status,         \* "run", "exit" (Exit), "end" (loop left), "panic", "read_error"
    curr_block,     \* 0 = prog.body, f + 1 = prog.func[f]
    index,          \* index of the next command in curr_block
    cmd,            \* the command fetched last (PoolSpec: the pool call made last)
    string_memory,  \* StringMemory: [buff, index]
    str_stack,      \* engine_stack.str_stack.stack
    bool_stack,     \* engine_stack.bool_stack
    global_memory,  \* EngineMemory of the global frame
    stack_vect,     \* Seq of Record, the last one on top
    next_record,    \* Option<Record>: <<>> is None, <<r>> is Some(r)
    prog_mem,       \* ProgramMemory: [main, func], chosen by the loader
    issued,         \* history: the inserts made so far, [key, string, str_type]
    executed,       \* history: the number of commands fetched so far
    int_stack,      \* engine_stack.int_stack
    real_stack,     \* engine_stack.real_stack
    factory,        \* ProgramFactory of parse_data
    data,           \* history: the units of the byte stream parse_data has read
    prog,           \* Option<Program>: <<>> until build_program returns it
    reader,         \* LineReader.string_buff: [buff, begin], buff an Option<String>
    stdin,          \* the lines standard input still holds
    for_loop_stack, \* ForLoopStack.stack
    returned        \* history: what the last call of the loader or the reader returned

vars == <<status, curr_block, index, cmd, string_memory, str_stack, bool_stack,
          global_memory, stack_vect, next_record, prog_mem, issued, executed,
          int_stack, real_stack, factory, data, prog,
          reader, stdin, for_loop_stack, returned>>

\* the line reader, standard input and the for-loop stack
io_vars == <<reader, stdin, for_loop_stack, returned>>

\* what the Str commands and the pool calls never touch: the integer and real
\* operand stacks, and the loader, whose work precedes run_program
other_vars == <<int_stack, real_stack, factory, data, prog,
                reader, stdin, for_loop_stack, returned>>

\* ------------------------------------------------- string_memory.rs
StringValue_new(string, str_type) ==
    [string |-> string, ref_count |-> 1, str_type |-> str_type]

incr_ref(v) ==
    IF v.str_type = "Dynamic" THEN [v EXCEPT !.ref_count = @ + 1] ELSE v

\* decr_ref without the Static test
decr_ref_any_type(v) ==
    IF v.ref_count > 0 THEN [v EXCEPT !.ref_count = @ - 1] ELSE v

\* decr_ref without the test for zero
decr_ref_unguarded(v) ==
    IF v.str_type = "Dynamic" THEN [v EXCEPT !.ref_count = @ - 1] ELSE v

decr_ref(v) ==
    IF v.str_type = "Dynamic"
    THEN IF v.ref_count > 0 THEN [v EXCEPT !.ref_count = @ - 1] ELSE v
    ELSE v

get_str(v) == v.string

EmptyBuff == [h \in {} |-> StringValue_new("", "Static")]

StringMemory_new == [buff |-> EmptyBuff, index |-> 0]

\* insert_new_string that takes the number of entries as the key
insert_new_string_len_key(sm, s, str_type) ==
    LET key == Cardinality(DOMAIN sm.buff) IN
    [mem |-> [buff |-> [h \in DOMAIN sm.buff \cup {key} |->
                           IF h = key THEN StringValue_new(s, str_type)
                                      ELSE sm.buff[h]],
              index |-> sm.index + 1],
     key |-> key]

\* the pool after the insert, and the key returned
insert_new_string(sm, s, str_type) ==
    LET key == sm.index IN
    [mem |-> [buff |-> [h \in DOMAIN sm.buff \cup {key} |->
                           IF h = key THEN StringValue_new(s, str_type)
                                      ELSE sm.buff[h]],
              index |-> sm.index + 1],
     key |-> key]

insert_static_string(sm, s) == insert_new_string(sm, s, "Static")

insert_string(sm, s) == insert_new_string(sm, s, "Dynamic")

\* get_string: tmp.unwrap() panics on a miss
get_string_panics(sm, h) == h \notin DOMAIN sm.buff

get_string(sm, h) == get_str(sm.buff[h])

\* increment: tmp.unwrap() panics on a miss
increment_panics(sm, h) == h \notin DOMAIN sm.buff

increment(sm, h) ==
    IF h \in DOMAIN sm.buff
    THEN [sm EXCEPT !.buff = [k \in DOMAIN sm.buff |->
                                 IF k = h THEN incr_ref(sm.buff[k]) ELSE sm.buff[k]]]
    ELSE sm

\* decrement: `if let Some(..)`, a miss is skipped
decrement_panics(sm, h) == FALSE

decrement(sm, h) ==
    IF h \in DOMAIN sm.buff
    THEN [sm EXCEPT !.buff = [k \in DOMAIN sm.buff |->
                                 IF k = h THEN decr_ref(sm.buff[k]) ELSE sm.buff[k]]]
    ELSE sm

\* clean that retains every entry
clean_retain_all(sm) == sm

clean(sm) ==
    [sm EXCEPT !.buff = [h \in {k \in DOMAIN sm.buff : sm.buff[k].ref_count > 0} |->
                            sm.buff[h]]]

RECURSIVE remove_strings_from(_, _, _)
remove_strings_from(sm, string_mem, i) ==
    IF i > Len(string_mem) THEN sm
    ELSE remove_strings_from(decrement(sm, string_mem[i]), string_mem, i + 1)

\* remove_strings that leaves out the first cell
remove_strings_skip_first(sm, string_mem) == remove_strings_from(sm, string_mem, 2)

remove_strings(sm, string_mem) == remove_strings_from(sm, string_mem, 1)

\* ------------------------------------------------- reference_memory.rs
\* ReferenceStack::push: increment, then push
push_panics(sm, h) == increment_panics(sm, h)

\* push that does not count the new holder
push_uncounted(stack, sm, h) == [stack |-> Append(stack, h), mem |-> sm]

push(stack, sm, h) == [stack |-> Append(stack, h), mem |-> increment(sm, h)]

\* ReferenceStack::pop: self.stack.pop().unwrap() panics on an empty stack
pop_panics(stack) == stack = <<>>

pop(stack, sm) ==
    LET output == stack[Len(stack)] IN
    [stack |-> SubSeq(stack, 1, Len(stack) - 1),
     mem |-> decrement(sm, output),
     output |-> output]

\* ------------------------------------------------- engine.rs: memory
\* addr & LOCAL_MASK != 0, for a 16-bit addr
IsLocal(addr) == (addr \div LOCAL_MASK) % 2 = 1

\* struct MemorySize
MemorySize(integer_count, real_count, boolean_count, string_count) ==
    [integer_count |-> integer_count, real_count |-> real_count,
     boolean_count |-> boolean_count, string_count |-> string_count]

\* EngineMemory::new.  A real is written as its decimal text: the engine's
\* memory only copies it.  str_set is history: whether the string cell was
\* written by a store since the frame was built.
EngineMemory_new(size) ==
    [int_mem  |-> [i \in 1 .. size.integer_count |-> 0],
     real_mem |-> [i \in 1 .. size.real_count |-> "0.0"],
     bool_mem |-> [i \in 1 .. size.boolean_count |-> FALSE],
     str_mem  |-> [i \in 1 .. size.string_count |-> 0],
     str_set  |-> [i \in 1 .. size.string_count |-> FALSE]]

\* Record::new
Record_new(return_block, func_mem_size) ==
    [return_index |-> 0,
     return_block |-> return_block,
     func_mem |-> EngineMemory_new(func_mem_size)]

\* get_value that reads the global vector when there is no local one
get_value_global_fallback(glob, loc, addr) ==
    IF ~IsLocal(addr) \/ loc = <<>>
    THEN IF addr % LOCAL_MASK < Len(glob)
         THEN [panics |-> FALSE, value |-> glob[(addr % LOCAL_MASK) + 1]]
         ELSE [panics |-> TRUE]
    ELSE IF addr - LOCAL_MASK < Len(loc[1])
         THEN [panics |-> FALSE, value |-> loc[1][addr - LOCAL_MASK + 1]]
         ELSE [panics |-> TRUE]

\* get_value: cell addr of glob, or cell addr - LOCAL_MASK of loc
get_value(glob, loc, addr) ==
    IF ~IsLocal(addr)
    THEN IF addr < Len(glob)
         THEN [panics |-> FALSE, value |-> glob[addr + 1]]
         ELSE [panics |-> TRUE]
    ELSE IF loc = <<>>
         THEN [panics |-> TRUE]
         ELSE IF addr - LOCAL_MASK < Len(loc[1])
              THEN [panics |-> FALSE, value |-> loc[1][addr - LOCAL_MASK + 1]]
              ELSE [panics |-> TRUE]

\* insert_and_get_prev: map[addr] = value panics when addr is out of range
insert_and_get_prev(map, addr, value) ==
    IF addr < Len(map)
    THEN [panics |-> FALSE,
          map |-> [map EXCEPT ![addr + 1] = value],
          prev |-> <<map[addr + 1]>>]
    ELSE [panics |-> TRUE]

\* set_value that writes the global vector whatever the LOCAL bit
set_value_ignores_flag(glob, loc, addr, value) ==
    LET r == insert_and_get_prev(glob, addr % LOCAL_MASK, value) IN
    IF r.panics \/ (IsLocal(addr) /\ loc = <<>>) THEN [panics |-> TRUE]
    ELSE [panics |-> FALSE, glob |-> r.map, loc |-> loc, prev |-> r.prev]

\* set_value: the vectors after the write and the value the cell held
set_value(glob, loc, addr, value) ==
    IF ~IsLocal(addr)
    THEN LET r == insert_and_get_prev(glob, addr, value) IN
         IF r.panics THEN [panics |-> TRUE]
         ELSE [panics |-> FALSE, glob |-> r.map, loc |-> loc, prev |-> r.prev]
    ELSE IF loc = <<>>
         THEN [panics |-> TRUE]
         ELSE LET r == insert_and_get_prev(loc[1], addr - LOCAL_MASK, value) IN
              IF r.panics THEN [panics |-> TRUE]
              ELSE [panics |-> FALSE, glob |-> glob, loc |-> <<r.map>>, prev |-> r.prev]

\* clean_prev that releases nothing
clean_prev_none(prev, str_mem) == str_mem

clean_prev(prev, str_mem) ==
    IF prev # <<>> THEN decrement(str_mem, prev[1]) ELSE str_mem

\* history: the cell a store to addr writes is marked as set
MarkSet(mem, addr) == [mem EXCEPT !.str_set[addr + 1] = TRUE]

\* memory_store, Kind::Str.  local is Option<EngineMemory>.
memory_store(addr, stack, global, local, str_mem) ==
    IF pop_panics(stack) THEN [panics |-> TRUE]
    ELSE
    LET p == pop(stack, str_mem)
        b == p.output
    IN
    IF increment_panics(p.mem, b) THEN [panics |-> TRUE]
    ELSE
    LET loc == IF local # <<>> THEN <<local[1].str_mem>> ELSE <<>>
        sv  == set_value(global.str_mem, loc, addr, b)
    IN
    IF sv.panics THEN [panics |-> TRUE]
    ELSE
    [panics |-> FALSE,
     stack  |-> p.stack,
     global |-> IF IsLocal(addr) THEN global
                ELSE MarkSet([global EXCEPT !.str_mem = sv.glob], addr),
     local  |-> IF IsLocal(addr)
                THEN <<MarkSet([local[1] EXCEPT !.str_mem = sv.loc[1]], addr - LOCAL_MASK)>>
                ELSE local,
     mem    |-> clean_prev(sv.prev, increment(p.mem, b))]

\* memory_load, Kind::Str
memory_load(addr, stack, global, local, str_mem) ==
    LET loc == IF local # <<>> THEN <<local[1].str_mem>> ELSE <<>>
        s   == get_value(global.str_mem, loc, addr)
    IN
    IF s.panics THEN [panics |-> TRUE]
    ELSE IF push_panics(str_mem, s.value) THEN [panics |-> TRUE]
    ELSE LET q == push(stack, str_mem, s.value) IN
         [panics |-> FALSE, stack |-> q.stack, mem |-> q.mem]

\* byte-wise lexicographic order of the strings of Strings
StrRank(s) == IF s = "a" THEN 1 ELSE 2

\* binary_rel_operation on string contents
binary_rel_operation(op, lhs, rhs) ==
    CASE op = "GreatEq"  -> StrRank(lhs) >= StrRank(rhs)
      [] op = "Greater"  -> StrRank(lhs) > StrRank(rhs)
      [] op = "LessEq"   -> StrRank(lhs) <= StrRank(rhs)
      [] op = "Less"     -> StrRank(lhs) < StrRank(rhs)
      [] op = "Equal"    -> lhs = rhs
      [] op = "NotEqual" -> lhs # rhs

\* StringMemory::binary_operation: two pops, then both entries are resolved
binary_operation(op, stack, sm) ==
    IF Len(stack) < 2 THEN [panics |-> TRUE]
    ELSE
    LET r == pop(stack, sm)
        l == pop(r.stack, r.mem)
    IN
    IF r.output \notin DOMAIN l.mem.buff \/ l.output \notin DOMAIN l.mem.buff
    THEN [panics |-> TRUE]
    ELSE [panics |-> FALSE, stack |-> l.stack, mem |-> l.mem,
          res |-> binary_rel_operation(op, get_str(l.mem.buff[l.output]),
                                           get_str(l.mem.buff[r.output]))]

\* ------------------------------------------------- engine.rs: run_program
Command(op, kind, arg) == [op |-> op, kind |-> kind, arg |-> arg]

NoCommand == Command("none", "none", 0)

\* history: one insert, the key it returned and what it stored
Issue(key, string, str_type) == [key |-> key, string |-> string, str_type |-> str_type]

\* the addresses a command may carry: every cell, global and local
Addrs == (0 .. MaxStrCells - 1) \cup {LOCAL_MASK + a : a \in 0 .. MaxStrCells - 1}

FuncIds == 0 .. NumFunc - 1

\* the handles the loader stored in ConstantLoad(Str) commands
ConstantHandles == {h \in DOMAIN string_memory.buff : string_memory.buff[h].str_type = "Static"}

\* what reader.next_string() returns: Ok(line) or Err
ReadResults == {[ok |-> TRUE, value |-> s] : s \in Strings} \cup {[ok |-> FALSE, value |-> ""]}

\* the loader's pool: the string constants, interned in stream order
RECURSIVE LoadedPool(_)
LoadedPool(consts) ==
    IF consts = <<>> THEN StringMemory_new
    ELSE insert_static_string(LoadedPool(SubSeq(consts, 1, Len(consts) - 1)),
                              consts[Len(consts)]).mem

ConstSeqs == UNION {[1 .. n -> Strings] : n \in 0 .. MaxStatic}

\* the MemorySize of the INIT headers: every block declares MaxStrCells string
\* cells and, in the programs of Spec, which use Str memory only, no other cell
MemorySizes == {MemorySize(0, 0, 0, MaxStrCells)}

\* LineReader::new, ForLoopStack::new, nothing on standard input
IoInit ==
    /\ reader = [buff |-> <<>>, begin |-> 0]
    /\ stdin = <<>>
    /\ for_loop_stack = <<>>
    /\ returned = <<>>

\* EngineStack::new for the integer and real stacks; the loader's variables
\* at rest
OtherInit ==
    /\ IoInit
    /\ int_stack = <<>>
    /\ real_stack = <<>>
    /\ factory = <<>>
    /\ data = <<>>
    /\ prog = <<>>

Init ==
    \E consts \in ConstSeqs, main \in MemorySizes, func \in [1 .. NumFunc -> MemorySizes] :
        /\ status = "run"
        /\ curr_block = 0
        /\ index = 0
        /\ cmd = NoCommand
        /\ string_memory = LoadedPool(consts)
        /\ str_stack = <<>>
        /\ bool_stack = <<>>
        /\ prog_mem = [main |-> main, func |-> func]
        /\ global_memory = EngineMemory_new(main)
        /\ stack_vect = <<>>
        /\ next_record = <<>>
        /\ issued = [i \in 1 .. Len(consts) |-> Issue(i - 1, consts[i], "Static")]
        /\ executed = 0
        /\ OtherInit

\* while index < curr_block.code.len(): a command is fetched
Fetch ==
    /\ status = "run"
    /\ executed < MaxSteps
    /\ executed' = executed + 1
    /\ UNCHANGED other_vars

\* the local EngineMemory handed to memory_load / memory_store
LocalMem == IF stack_vect # <<>> THEN <<stack_vect[Len(stack_vect)].func_mem>> ELSE <<>>

\* Panic that lets the run go on
Panic_run_goes_on(c) ==
    /\ status' = "run"
    /\ cmd' = c
    /\ index' = index + 1
    /\ string_memory' = clean(string_memory)
    /\ UNCHANGED <<curr_block, str_stack, bool_stack, global_memory, stack_vect,
                   next_record, prog_mem, issued>>

\* a panic inside the command c: the run is over, nothing of it is observed
Panic(c) ==
    /\ status' = "panic"
    /\ cmd' = c
    /\ index' = index + 1
    /\ string_memory' = clean(string_memory)
    /\ UNCHANGED <<curr_block, str_stack, bool_stack, global_memory, stack_vect,
                   next_record, prog_mem, issued>>

\* Command::MemoryLoad(Str, addr)
ExecMemoryLoad ==
    \E addr \in Addrs :
        LET c == Command("MemoryLoad", "Str", addr)
            r == memory_load(addr, str_stack, global_memory, LocalMem, clean(string_memory))
        IN
        /\ Fetch
        /\ IF r.panics THEN Panic(c)
           ELSE /\ status' = "run"
                /\ cmd' = c
                /\ index' = index + 1
                /\ string_memory' = r.mem
                /\ str_stack' = r.stack
                /\ UNCHANGED <<curr_block, bool_stack, global_memory, stack_vect,
                               next_record, prog_mem, issued>>

\* Command::MemoryStore(Str, addr)
ExecMemoryStore ==
    \E addr \in Addrs :
        LET c == Command("MemoryStore", "Str", addr)
            r == memory_store(addr, str_stack, global_memory, LocalMem, clean(string_memory))
        IN
        /\ Fetch
        /\ IF r.panics THEN Panic(c)
           ELSE /\ status' = "run"
                /\ cmd' = c
                /\ index' = index + 1
                /\ string_memory' = r.mem
                /\ str_stack' = r.stack
                /\ global_memory' = r.global
                /\ stack_vect' = IF stack_vect # <<>>
                                 THEN [stack_vect EXCEPT ![Len(stack_vect)].func_mem = r.local[1]]
                                 ELSE stack_vect
                /\ UNCHANGED <<curr_block, bool_stack, next_record, prog_mem, issued>>

\* Command::StoreParam(Str, addr)
ExecStoreParam ==
    \E addr \in Addrs :
        LET c == Command("StoreParam", "Str", addr)
            local_memory == <<next_record[1].func_mem>>
            r == memory_store(addr, str_stack, global_memory, local_memory, clean(string_memory))
        IN
        /\ Fetch
        /\ IF next_record = <<>> THEN Panic(c)
           ELSE IF r.panics THEN Panic(c)
           ELSE /\ status' = "run"
                /\ cmd' = c
                /\ index' = index + 1
                /\ string_memory' = r.mem
                /\ str_stack' = r.stack
                /\ global_memory' = r.global
                /\ next_record' = <<[next_record[1] EXCEPT !.func_mem = r.local[1]]>>
                /\ UNCHANGED <<curr_block, bool_stack, stack_vect, prog_mem, issued>>

\* Command::NewRecord(f_id)
ExecNewRecord ==
    \E f_id \in FuncIds :
        LET c == Command("NewRecord", "none", f_id) IN
        /\ Fetch
        /\ IF next_record # <<>> THEN Panic(c)
           ELSE /\ status' = "run"
                /\ cmd' = c
                /\ index' = index + 1
                /\ string_memory' = clean(string_memory)
                /\ next_record' = <<Record_new(curr_block, prog_mem.func[f_id + 1])>>
                /\ UNCHANGED <<curr_block, str_stack, bool_stack, global_memory,
                               stack_vect, prog_mem, issued>>

\* Command::Control(ControlFlow::Call, addr)
ExecCall ==
    \E addr \in FuncIds :
        LET c == Command("Call", "none", addr) IN
        /\ Fetch
        /\ status' = "run"
        /\ cmd' = c
        /\ string_memory' = clean(string_memory)
        /\ IF next_record # <<>>
           THEN /\ curr_block' = addr + 1
                /\ index' = 0
                /\ stack_vect' = Append(stack_vect,
                                        [next_record[1] EXCEPT !.return_index = index + 1])
                /\ next_record' = <<>>
           ELSE /\ index' = index + 1
                /\ UNCHANGED <<curr_block, stack_vect, next_record>>
        /\ UNCHANGED <<str_stack, bool_stack, global_memory, prog_mem, issued>>

\* Command::Control(ControlFlow::Ret, _)
ExecRet ==
    LET c == Command("Ret", "none", 0) IN
    /\ Fetch
    /\ IF stack_vect = <<>> THEN Panic(c)
       ELSE LET top == stack_vect[Len(stack_vect)] IN
            /\ status' = "run"
            /\ cmd' = c
            /\ index' = top.return_index
            /\ curr_block' = top.return_block
            /\ stack_vect' = SubSeq(stack_vect, 1, Len(stack_vect) - 1)
            /\ string_memory' = remove_strings(clean(string_memory), top.func_mem.str_mem)
            /\ UNCHANGED <<str_stack, bool_stack, global_memory, next_record,
                           prog_mem, issued>>

\* Command::ConstantLoad(Constant::Str(s))
ExecConstantLoad ==
    \E s \in ConstantHandles :
        LET c == Command("ConstantLoad", "Str", s)
            sm == clean(string_memory)
        IN
        /\ Fetch
        /\ IF push_panics(sm, s) THEN Panic(c)
           ELSE /\ status' = "run"
                /\ cmd' = c
                /\ index' = index + 1
                /\ string_memory' = push(str_stack, sm, s).mem
                /\ str_stack' = push(str_stack, sm, s).stack
                /\ UNCHANGED <<curr_block, bool_stack, global_memory, stack_vect,
                               next_record, prog_mem, issued>>

\* Command::Input(Str): input() with reader.next_string()?
ExecInput ==
    \E tmp \in ReadResults :
        LET c == Command("Input", "Str", 0)
            ins == insert_string(clean(string_memory), tmp.value)
            q == push(str_stack, ins.mem, ins.key)
        IN
        /\ Fetch
        /\ cmd' = c
        /\ index' = index + 1
        /\ IF ~tmp.ok
           THEN /\ status' = "read_error"
                /\ string_memory' = clean(string_memory)
                /\ UNCHANGED <<str_stack, issued>>
           ELSE /\ status' = "run"
                /\ string_memory' = decrement(q.mem, ins.key)
                /\ str_stack' = q.stack
                /\ issued' = Append(issued, Issue(ins.key, tmp.value, "Dynamic"))
        /\ UNCHANGED <<curr_block, bool_stack, global_memory, stack_vect,
                       next_record, prog_mem>>

\* Command::Output(Str) and Command::Output(Bool): output()
ExecOutput ==
    \E k \in {"Str", "Bool"} :
        LET c == Command("Output", k, 0)
            sm == clean(string_memory)
        IN
        /\ Fetch
        /\ IF k = "Str"
           THEN IF pop_panics(str_stack) THEN Panic(c)
                ELSE LET p == pop(str_stack, sm) IN
                     IF get_string_panics(p.mem, p.output) THEN Panic(c)
                     ELSE /\ status' = "run"
                          /\ cmd' = c
                          /\ index' = index + 1
                          /\ string_memory' = p.mem
                          /\ str_stack' = p.stack
                          /\ UNCHANGED <<curr_block, bool_stack, global_memory, stack_vect,
                                         next_record, prog_mem, issued>>
           ELSE IF bool_stack = <<>> THEN Panic(c)
                ELSE /\ status' = "run"
                     /\ cmd' = c
                     /\ index' = index + 1
                     /\ string_memory' = sm
                     /\ bool_stack' = SubSeq(bool_stack, 1, Len(bool_stack) - 1)
                     /\ UNCHANGED <<curr_block, str_stack, global_memory, stack_vect,
                                    next_record, prog_mem, issued>>

\* Command::StrCompare(op)
ExecStrCompare ==
    \E op \in RelOps :
        LET c == Command("StrCompare", op, 0)
            r == binary_operation(op, str_stack, clean(string_memory))
        IN
        /\ Fetch
        /\ IF r.panics THEN Panic(c)
           ELSE /\ status' = "run"
                /\ cmd' = c
                /\ index' = index + 1
                /\ string_memory' = r.mem
                /\ str_stack' = r.stack
                /\ bool_stack' = Append(bool_stack, r.res)
                /\ UNCHANGED <<curr_block, global_memory, stack_vect, next_record,
                               prog_mem, issued>>

\* Command::Exit: break, after the clean of this iteration
ExecExit ==
    /\ Fetch
    /\ status' = "exit"
    /\ cmd' = Command("Exit", "none", 0)
    /\ index' = index + 1
    /\ string_memory' = clean(string_memory)
    /\ UNCHANGED <<curr_block, str_stack, bool_stack, global_memory, stack_vect,
                   next_record, prog_mem, issued>>

\* index < curr_block.code.len() is false: the loop is left, Ok(())
LoopEnd ==
    /\ status = "run"
    /\ status' = "end"
    /\ UNCHANGED <<curr_block, index, cmd, string_memory, str_stack, bool_stack,
                   global_memory, stack_vect, next_record, prog_mem, issued, executed>>
    /\ UNCHANGED other_vars

Next ==
    \/ ExecMemoryLoad
    \/ ExecMemoryStore
    \/ ExecStoreParam
    \/ ExecNewRecord
    \/ ExecCall
    \/ ExecRet
    \/ ExecConstantLoad
    \/ ExecInput
    \/ ExecOutput
    \/ ExecStrCompare
    \/ ExecExit
    \/ LoopEnd

Spec == Init /\ [][Next]_vars

\* ------------------------------------------------- the pool on its own
\* PoolSpec: any sequence of calls of the public operations of StringMemory and
\* ReferenceStack, on a pool that starts empty.  cmd is the call made last.
PoolInit ==
    /\ status = "run"
    /\ curr_block = 0
    /\ index = 0
    /\ cmd = NoCommand
    /\ string_memory = StringMemory_new
    /\ str_stack = <<>>
    /\ bool_stack = <<>>
    /\ prog_mem = [main |-> MemorySize(0, 0, 0, 0), func |-> <<>>]
    /\ global_memory = EngineMemory_new(MemorySize(0, 0, 0, 0))
    /\ stack_vect = <<>>
    /\ next_record = <<>>
    /\ issued = <<>>
    /\ executed = 0
    /\ OtherInit

\* the handles a caller may pass: the issued ones and the one to be issued next
CallHandles == 0 .. string_memory.index

PoolCall(c) ==
    /\ status = "run"
    /\ executed < MaxSteps
    /\ executed' = executed + 1
    /\ cmd' = c
    /\ UNCHANGED <<curr_block, index, bool_stack, global_memory, stack_vect,
                   next_record, prog_mem>>
    /\ UNCHANGED other_vars

PoolPanic ==
    /\ status' = "panic"
    /\ UNCHANGED <<string_memory, str_stack, issued>>

PoolInsertStatic ==
    \E s \in Strings :
        LET r == insert_static_string(string_memory, s) IN
        /\ PoolCall(Command("insert_static_string", "none", r.key))
        /\ status' = "run"
        /\ string_memory' = r.mem
        /\ issued' = Append(issued, Issue(r.key, s, "Static"))
        /\ UNCHANGED str_stack

PoolInsertString ==
    \E s \in Strings :
        LET r == insert_string(string_memory, s) IN
        /\ PoolCall(Command("insert_string", "none", r.key))
        /\ status' = "run"
        /\ string_memory' = r.mem
        /\ issued' = Append(issued, Issue(r.key, s, "Dynamic"))
        /\ UNCHANGED str_stack

PoolGetString ==
    \E h \in CallHandles :
        /\ PoolCall(Command("get_string", "none", h))
        /\ IF get_string_panics(string_memory, h) THEN PoolPanic
           ELSE /\ status' = "run"
                /\ UNCHANGED <<string_memory, str_stack, issued>>

PoolIncrement ==
    \E h \in CallHandles :
        /\ PoolCall(Command("increment", "none", h))
        /\ IF increment_panics(string_memory, h) THEN PoolPanic
           ELSE /\ status' = "run"
                /\ string_memory' = increment(string_memory, h)
                /\ UNCHANGED <<str_stack, issued>>

PoolDecrement ==
    \E h \in CallHandles :
        /\ PoolCall(Command("decrement", "none", h))
        /\ IF decrement_panics(string_memory, h) THEN PoolPanic
           ELSE /\ status' = "run"
                /\ string_memory' = decrement(string_memory, h)
                /\ UNCHANGED <<str_stack, issued>>

PoolClean ==
    /\ PoolCall(Command("clean", "none", 0))
    /\ status' = "run"
    /\ string_memory' = clean(string_memory)
    /\ UNCHANGED <<str_stack, issued>>

\* remove_strings of a vector of one or two handles
PoolRemoveStrings ==
    \E h1 \in CallHandles, h2 \in CallHandles, n \in 1 .. 2 :
        /\ PoolCall(Command("remove_strings", "none", SubSeq(<<h1, h2>>, 1, n)))
        /\ status' = "run"
        /\ string_memory' = remove_strings(string_memory, SubSeq(<<h1, h2>>, 1, n))
        /\ UNCHANGED <<str_stack, issued>>

PoolPush ==
    \E h \in CallHandles :
        /\ PoolCall(Command("push", "none", h))
        /\ IF push_panics(string_memory, h) THEN PoolPanic
           ELSE /\ status' = "run"
                /\ string_memory' = push(str_stack, string_memory, h).mem
                /\ str_stack' = push(str_stack, string_memory, h).stack
                /\ UNCHANGED issued

PoolPop ==
    /\ PoolCall(Command("pop", "none", 0))
    /\ IF pop_panics(str_stack) THEN PoolPanic
       ELSE /\ status' = "run"
            /\ string_memory' = pop(str_stack, string_memory).mem
            /\ str_stack' = pop(str_stack, string_memory).stack
            /\ UNCHANGED issued

PoolNext ==
    \/ PoolInsertStatic
    \/ PoolInsertString
    \/ PoolGetString
    \/ PoolIncrement
    \/ PoolDecrement
    \/ PoolClean
    \/ PoolRemoveStrings
    \/ PoolPush
    \/ PoolPop

PoolSpec == PoolInit /\ [][PoolNext]_vars

\* ------------------------------------------------- the typed memories
\* MemSpec: the commands that move values between the operand stacks and the
\* memories, for the four kinds, with NewRecord, Call and Ret to build the
\* frames.  The strings are the constants of the program.
Kinds == {"Integer", "Real", "Str", "Bool"}

\* the vector of EngineMemory and the stack of EngineStack that a kind selects
MemField(k) ==
    CASE k = "Integer" -> "int_mem"
      [] k = "Real"    -> "real_mem"
      [] k = "Bool"    -> "bool_mem"
      [] k = "Str"     -> "str_mem"

StackField(k) ==
    CASE k = "Integer" -> "int_stack"
      [] k = "Real"    -> "real_stack"
      [] k = "Bool"    -> "bool_stack"
      [] k = "Str"     -> "str_stack"

\* engine_stack
EngineStack ==
    [int_stack |-> int_stack, real_stack |-> real_stack,
     bool_stack |-> bool_stack, str_stack |-> str_stack]

\* memory_load, the four arms: get_value on the kind's vectors, then a push
memory_load_kind(k, addr, stack, global, local, str_mem) ==
    IF k = "Str"
    THEN LET r == memory_load(addr, stack.str_stack, global, local, str_mem) IN
         IF r.panics THEN [panics |-> TRUE]
         ELSE [panics |-> FALSE, stack |-> [stack EXCEPT !.str_stack = r.stack],
               mem |-> r.mem]
    ELSE LET loc == IF local # <<>> THEN <<local[1][MemField(k)]>> ELSE <<>>
             v   == get_value(global[MemField(k)], loc, addr)
         IN
         IF v.panics THEN [panics |-> TRUE]
         ELSE [panics |-> FALSE,
               stack |-> [stack EXCEPT ![StackField(k)] = Append(@, v.value)],
               mem |-> str_mem]

\* memory_store, the four arms: a pop (unwrap), then set_value on the kind's
\* vectors
memory_store_kind(k, addr, stack, global, local, str_mem) ==
    IF k = "Str"
    THEN LET r == memory_store(addr, stack.str_stack, global, local, str_mem) IN
         IF r.panics THEN [panics |-> TRUE]
         ELSE [panics |-> FALSE, stack |-> [stack EXCEPT !.str_stack = r.stack],
               global |-> r.global, local |-> r.local, mem |-> r.mem]
    ELSE IF stack[StackField(k)] = <<>> THEN [panics |-> TRUE]
    ELSE
    LET s   == stack[StackField(k)]
        b   == s[Len(s)]
        loc == IF local # <<>> THEN <<local[1][MemField(k)]>> ELSE <<>>
        sv  == set_value(global[MemField(k)], loc, addr, b)
    IN
    IF sv.panics THEN [panics |-> TRUE]
    ELSE [panics |-> FALSE,
          stack  |-> [stack EXCEPT ![StackField(k)] = SubSeq(s, 1, Len(s) - 1)],
          global |-> [global EXCEPT ![MemField(k)] = sv.glob],
          local  |-> IF local # <<>>
                     THEN <<[local[1] EXCEPT ![MemField(k)] = sv.loc[1]]>>
                     ELSE local,
          mem    |-> str_mem]

\* load_constant: a push on the stack of the constant's kind
load_constant(k, value, stack, str_mem) ==
    IF k = "Str"
    THEN IF push_panics(str_mem, value) THEN [panics |-> TRUE]
         ELSE [panics |-> FALSE,
               stack |-> [stack EXCEPT !.str_stack = push(@, str_mem, value).stack],
               mem |-> push(stack.str_stack, str_mem, value).mem]
    ELSE [panics |-> FALSE,
          stack |-> [stack EXCEPT ![StackField(k)] = Append(@, value)],
          mem |-> str_mem]

\* the constants a ConstantLoad of each kind may carry
ConstantValues(k) ==
    CASE k = "Integer" -> {7}
      [] k = "Real"    -> {"2.5"}
      [] k = "Bool"    -> {TRUE}
      [] k = "Str"     -> ConstantHandles

\* the addresses of MemSpec: the cells of a frame and the first address past
\* them, global and local
MemAddrs == (0 .. MemCells) \cup {LOCAL_MASK + a : a \in 0 .. MemCells}

\* every block declares MemCells cells of each kind
MemInit ==
    /\ status = "run"
    /\ curr_block = 0
    /\ index = 0
    /\ cmd = NoCommand
    /\ string_memory = LoadedPool(<<"a", "b">>)
    /\ str_stack = <<>>
    /\ bool_stack = <<>>
    /\ prog_mem = [main |-> MemorySize(MemCells, MemCells, MemCells, MemCells),
                   func |-> [f \in 1 .. NumFunc |->
                                MemorySize(MemCells, MemCells, MemCells, MemCells)]]
    /\ global_memory = EngineMemory_new(MemorySize(MemCells, MemCells, MemCells, MemCells))
    /\ stack_vect = <<>>
    /\ next_record = <<>>
    /\ issued = <<Issue(0, "a", "Static"), Issue(1, "b", "Static")>>
    /\ executed = 0
    /\ OtherInit

MemFetch ==
    /\ status = "run"
    /\ executed < MaxMemSteps
    /\ executed' = executed + 1
    /\ UNCHANGED <<prog_mem, issued, factory, data, prog>>
    /\ UNCHANGED io_vars

MemPanic(c) ==
    /\ status' = "panic"
    /\ cmd' = c
    /\ index' = index + 1
    /\ string_memory' = clean(string_memory)
    /\ UNCHANGED <<curr_block, str_stack, bool_stack, int_stack, real_stack,
                   global_memory, stack_vect, next_record>>

\* the operand stacks become those of s
SetEngineStack(s) ==
    /\ int_stack' = s.int_stack
    /\ real_stack' = s.real_stack
    /\ bool_stack' = s.bool_stack
    /\ str_stack' = s.str_stack

\* Command::MemoryLoad(k, addr)
TypedMemoryLoad ==
    \E k \in Kinds, addr \in MemAddrs :
        LET c == Command("MemoryLoad", k, addr)
            r == memory_load_kind(k, addr, EngineStack, global_memory, LocalMem,
                                  clean(string_memory))
        IN
        /\ MemFetch
        /\ IF r.panics THEN MemPanic(c)
           ELSE /\ status' = "run"
                /\ cmd' = c
                /\ index' = index + 1
                /\ string_memory' = r.mem
                /\ SetEngineStack(r.stack)
                /\ UNCHANGED <<curr_block, global_memory, stack_vect, next_record>>

\* Command::MemoryStore(k, addr)
TypedMemoryStore ==
    \E k \in Kinds, addr \in MemAddrs :
        LET c == Command("MemoryStore", k, addr)
            r == memory_store_kind(k, addr, EngineStack, global_memory, LocalMem,
                                   clean(string_memory))
        IN
        /\ MemFetch
        /\ IF r.panics THEN MemPanic(c)
           ELSE /\ status' = "run"
                /\ cmd' = c
                /\ index' = index + 1
                /\ string_memory' = r.mem
                /\ SetEngineStack(r.stack)
                /\ global_memory' = r.global
                /\ stack_vect' = IF stack_vect # <<>>
                                 THEN [stack_vect EXCEPT ![Len(stack_vect)].func_mem = r.local[1]]
                                 ELSE stack_vect
                /\ UNCHANGED <<curr_block, next_record>>

\* Command::StoreParam(k, addr)
TypedStoreParam ==
    \E k \in Kinds, addr \in MemAddrs :
        LET c == Command("StoreParam", k, addr)
            local_memory == <<next_record[1].func_mem>>
            r == memory_store_kind(k, addr, EngineStack, global_memory, local_memory,
                                   clean(string_memory))
        IN
        /\ MemFetch
        /\ IF next_record = <<>> THEN MemPanic(c)
           ELSE IF r.panics THEN MemPanic(c)
           ELSE /\ status' = "run"
                /\ cmd' = c
                /\ index' = index + 1
                /\ string_memory' = r.mem
                /\ SetEngineStack(r.stack)
                /\ global_memory' = r.global
                /\ next_record' = <<[next_record[1] EXCEPT !.func_mem = r.local[1]]>>
                /\ UNCHANGED <<curr_block, stack_vect>>

\* Command::ConstantLoad(load)
TypedConstantLoad ==
    \E k \in Kinds :
        \E value \in ConstantValues(k) :
            LET c == Command("ConstantLoad", k, value)
                r == load_constant(k, value, EngineStack, clean(string_memory))
            IN
            /\ MemFetch
            /\ IF r.panics THEN MemPanic(c)
               ELSE /\ status' = "run"
                    /\ cmd' = c
                    /\ index' = index + 1
                    /\ string_memory' = r.mem
                    /\ SetEngineStack(r.stack)
                    /\ UNCHANGED <<curr_block, global_memory, stack_vect, next_record>>

\* Command::NewRecord(f_id)
TypedNewRecord ==
    \E f_id \in FuncIds :
        LET c == Command("NewRecord", "none", f_id) IN
        /\ MemFetch
        /\ IF next_record # <<>> THEN MemPanic(c)
           ELSE /\ status' = "run"
                /\ cmd' = c
                /\ index' = index + 1
                /\ string_memory' = clean(string_memory)
                /\ next_record' = <<Record_new(curr_block, prog_mem.func[f_id + 1])>>
                /\ UNCHANGED <<curr_block, str_stack, bool_stack, int_stack, real_stack,
                               global_memory, stack_vect>>

\* Command::Control(ControlFlow::Call, addr)
TypedCall ==
    \E addr \in FuncIds :
        /\ MemFetch
        /\ status' = "run"
        /\ cmd' = Command("Call", "none", addr)
        /\ string_memory' = clean(string_memory)
        /\ IF next_record # <<>>
           THEN /\ curr_block' = addr + 1
                /\ index' = 0
                /\ stack_vect' = Append(stack_vect,
                                        [next_record[1] EXCEPT !.return_index = index + 1])
                /\ next_record' = <<>>
           ELSE /\ index' = index + 1
                /\ UNCHANGED <<curr_block, stack_vect, next_record>>
        /\ UNCHANGED <<str_stack, bool_stack, int_stack, real_stack, global_memory>>

\* Command::Control(ControlFlow::Ret, _)
TypedRet ==
    LET c == Command("Ret", "none", 0) IN
    /\ MemFetch
    /\ IF stack_vect = <<>> THEN MemPanic(c)
       ELSE LET top == stack_vect[Len(stack_vect)] IN
            /\ status' = "run"
            /\ cmd' = c
            /\ index' = top.return_index
            /\ curr_block' = top.return_block
            /\ stack_vect' = SubSeq(stack_vect, 1, Len(stack_vect) - 1)
            /\ string_memory' = remove_strings(clean(string_memory), top.func_mem.str_mem)
            /\ UNCHANGED <<str_stack, bool_stack, int_stack, real_stack, global_memory,
                           next_record>>

MemNext ==
    \/ TypedMemoryLoad
    \/ TypedMemoryStore
    \/ TypedStoreParam
    \/ TypedConstantLoad
    \/ TypedNewRecord
    \/ TypedCall
    \/ TypedRet

MemSpec == MemInit /\ [][MemNext]_vars

\* ------------------------------------------------- program_load.rs
\* LoadSpec: parse_data over a stream of units.  A unit is what one turn of
\* the loop of parse_data consumes: the bytes of one command, the FUNC byte,
\* or the INIT byte with its four counts.
Unit_cmd(c) == [unit |-> "cmd", cmd |-> c]

Unit_FUNC == [unit |-> "FUNC"]

Unit_INIT(size) == [unit |-> "INIT", size |-> size]

\* the commands of the streams: two labels, a jump to each, Exit
LoadCommands ==
    {Command("Label", "none", id) : id \in 0 .. MaxLabel}
    \cup {Command("Jump", "none", id) : id \in 0 .. MaxLabel}
    \cup {Command("Exit", "none", 0)}

\* the INIT headers of the streams
LoadSizes == {MemorySize(n, 0, 0, 0) : n \in 1 .. MaxInit}

\* ProgramFactory::new.  main_mem is Option<MemorySize>.
ProgramFactory_new ==
    [state |-> "Body", body |-> <<>>, func |-> <<>>, curr |-> <<>>,
     main_mem |-> <<>>, func_mem |-> <<>>]

\* ProgramFactory::switch_function
switch_function(f) ==
    [f EXCEPT !.func = IF Len(f.curr) > 0 THEN Append(f.func, f.curr) ELSE f.func,
              !.state = "Function",
              !.curr = <<>>]

\* ProgramFactory::add_command
add_command(f, c) ==
    IF f.state = "Body"
    THEN [f EXCEPT !.body = Append(f.body, c)]
    ELSE [f EXCEPT !.curr = Append(f.curr, c)]

\* ProgramFactory::add_memory_size
add_memory_size(f, mem_size) ==
    IF f.state = "Body"
    THEN [f EXCEPT !.main_mem = <<mem_size>>]
    ELSE [f EXCEPT !.func_mem = Append(f.func_mem, mem_size)]

\* build_labels that counts positions from one
RECURSIVE build_labels_from_one(_)
build_labels_from_one(code) ==
    IF code = <<>> THEN [id \in {} |-> 0]
    ELSE LET prev == build_labels_from_one(SubSeq(code, 1, Len(code) - 1))
             c    == code[Len(code)]
         IN
         IF c.op = "Label"
         THEN [id \in DOMAIN prev \cup {c.arg} |->
                  IF id = c.arg THEN Len(code) ELSE prev[id]]
         ELSE prev

\* Block::build_labels: (label, addr) for every Control(Label, label) at the
\* zero-based position addr, collected into a HashMap in the order of the
\* code, so that a later pair replaces an earlier one with the same label
RECURSIVE build_labels(_)
build_labels(code) ==
    IF code = <<>> THEN [id \in {} |-> 0]
    ELSE LET prev == build_labels(SubSeq(code, 1, Len(code) - 1))
             c    == code[Len(code)]
         IN
         IF c.op = "Label"
         THEN [id \in DOMAIN prev \cup {c.arg} |->
                  IF id = c.arg THEN Len(code) - 1 ELSE prev[id]]
         ELSE prev

\* Block::new
Block_new(code) == [code |-> code, labels |-> build_labels(code)]

\* run_jump that takes the jump on the other value of the condition
run_jump_negated(j, curr, next, stack) ==
    CASE j = "Jump" -> [panics |-> FALSE, index |-> next, stack |-> stack]
      [] j \in {"JumpTrue", "JumpFalse"} ->
            IF stack = <<>> THEN [panics |-> TRUE]
            ELSE LET b == stack[Len(stack)] IN
                 [panics |-> FALSE,
                  index |-> IF b = (j = "JumpFalse") THEN next ELSE curr,
                  stack |-> SubSeq(stack, 1, Len(stack) - 1)]

\* run_jump: the index the loop continues at.  stack is the bool stack.
run_jump(j, curr, next, stack) ==
    CASE j = "Jump" -> [panics |-> FALSE, index |-> next, stack |-> stack]
      [] j \in {"JumpTrue", "JumpFalse"} ->
            IF stack = <<>> THEN [panics |-> TRUE]
            ELSE LET b == stack[Len(stack)] IN
                 [panics |-> FALSE,
                  index |-> IF b = (j = "JumpTrue") THEN next ELSE curr,
                  stack |-> SubSeq(stack, 1, Len(stack) - 1)]

\* build_program: self.main_mem.unwrap() panics when the body had no INIT
build_program_panics(f) == f.main_mem = <<>>

\* ProgramFactory::build_program: (Program, ProgramMemory)
build_program(f) ==
    LET func == IF Len(f.curr) > 0 THEN Append(f.func, f.curr) ELSE f.func IN
    [prog |-> [body |-> Block_new(f.body),
               func |-> [k \in DOMAIN func |-> Block_new(func[k])]],
     mem  |-> [main |-> f.main_mem[1], func |-> f.func_mem]]

LoadInit ==
    /\ status = "load"
    /\ curr_block = 0
    /\ index = 0
    /\ cmd = NoCommand
    /\ string_memory = StringMemory_new
    /\ str_stack = <<>>
    /\ bool_stack = <<>>
    /\ int_stack = <<>>
    /\ real_stack = <<>>
    /\ prog_mem = <<>>
    /\ global_memory = <<>>
    /\ stack_vect = <<>>
    /\ next_record = <<>>
    /\ issued = <<>>
    /\ executed = 0
    /\ factory = ProgramFactory_new
    /\ data = <<>>
    /\ prog = <<>>
    /\ IoInit

\* one turn of `while index < data.len()`: the unit u is consumed
ParseUnit(u) ==
    /\ status = "load"
    /\ Len(data) < MaxUnits
    /\ data' = Append(data, u)
    /\ UNCHANGED <<status, curr_block, index, cmd, string_memory, str_stack, bool_stack,
                   int_stack, real_stack, prog_mem, global_memory, stack_vect,
                   next_record, issued, executed, prog>>
    /\ UNCHANGED io_vars

\* is_single_command / is_address_command: factory.add_command(cmd)
ParseCommand ==
    \E c \in LoadCommands :
        /\ ParseUnit(Unit_cmd(c))
        /\ factory' = add_command(factory, c)

\* data[index] == opcode::FUNC
ParseFunc ==
    /\ ParseUnit(Unit_FUNC)
    /\ factory' = switch_function(factory)

\* data[index] == opcode::INIT
ParseInit ==
    \E size \in LoadSizes :
        /\ ParseUnit(Unit_INIT(size))
        /\ factory' = add_memory_size(factory, size)

\* index < data.len() is false: factory.build_program()
BuildProgram ==
    /\ status = "load"
    /\ IF build_program_panics(factory)
       THEN /\ status' = "panic"
            /\ UNCHANGED <<prog, prog_mem>>
       ELSE /\ status' = "loaded"
            /\ prog' = <<build_program(factory).prog>>
            /\ prog_mem' = build_program(factory).mem
    /\ UNCHANGED <<curr_block, index, cmd, string_memory, str_stack, bool_stack,
                   int_stack, real_stack, global_memory, stack_vect, next_record,
                   issued, executed, factory, data>>
    /\ UNCHANGED io_vars

LoadNext ==
    \/ ParseCommand
    \/ ParseFunc
    \/ ParseInit
    \/ BuildProgram

LoadSpec == LoadInit /\ [][LoadNext]_vars

\* ------------------------------------------------- opcode.rs
\* The opcode table.  ADDI, ADDR, GEQS and GEQB are fixed by convert_single
\* (Operator::new(byte), byte - 10, byte - 63, byte - 69); the residues modulo
\* four of the memory, read, write, parameter and constant groups by
\* Kind::new and convert_constant; the ranges by is_single_command and
\* is_address_command.
opcode ==
    [ADDI |-> 0, NEI |-> 9, ADDR |-> 10, NER |-> 19, CSTI |-> 20, CSTR |-> 21,
     OR |-> 22, AND |-> 23, LDI |-> 24, STRI |-> 28, STRS |-> 31, JUMP |-> 32,
     JEQ |-> 33, JNE |-> 34, LBL |-> 35, CALL |-> 36, RET |-> 37, EXT |-> 38,
     LDIC |-> 39, LDRC |-> 40, LDBC |-> 41, LDSC |-> 42, RDI |-> 44, RDS |-> 47,
     WRI |-> 48, WRS |-> 51, STRIP |-> 52, STRSP |-> 55, PARAM |-> 56, FUNC |-> 57,
     INIT |-> 58, FLU |-> 59, FLN |-> 60, BFOR |-> 61, CFOR |-> 62, EFOR |-> 63,
     NEGI |-> 64, NEGR |-> 65, NOT |-> 66, GEQS |-> 67, NES |-> 72, GEQB |-> 73,
     NEB |-> 78]

ADDI == opcode.ADDI
NEI == opcode.NEI
ADDR == opcode.ADDR
NER == opcode.NER
CSTI == opcode.CSTI
CSTR == opcode.CSTR
OR == opcode.OR
AND == opcode.AND
LDI == opcode.LDI
STRI == opcode.STRI
STRS == opcode.STRS
JUMP == opcode.JUMP
JEQ == opcode.JEQ
JNE == opcode.JNE
LBL == opcode.LBL
CALL == opcode.CALL
RET == opcode.RET
EXT == opcode.EXT
LDIC == opcode.LDIC
LDRC == opcode.LDRC
LDBC == opcode.LDBC
LDSC == opcode.LDSC
RDI == opcode.RDI
RDS == opcode.RDS
WRI == opcode.WRI
WRS == opcode.WRS
STRIP == opcode.STRIP
STRSP == opcode.STRSP
PARAM == opcode.PARAM
FUNC == opcode.FUNC
INIT == opcode.INIT
FLU == opcode.FLU
FLN == opcode.FLN
BFOR == opcode.BFOR
CFOR == opcode.CFOR
EFOR == opcode.EFOR
NEGI == opcode.NEGI
NEGR == opcode.NEGR
NOT == opcode.NOT
GEQS == opcode.GEQS
NES == opcode.NES
GEQB == opcode.GEQB
NEB == opcode.NEB

\* the bytes the table assigns
Opcodes ==
    (ADDI .. AND) \cup (LDI .. STRS) \cup (JUMP .. RET) \cup {EXT} \cup (LDIC .. LDSC)
    \cup (RDI .. WRS) \cup (STRIP .. STRSP) \cup {PARAM, FUNC, INIT, FLU, FLN}
    \cup (BFOR .. NOT) \cup (GEQS .. NEB)

\* ------------------------------------------------- command_definition.rs
\* Kind::new
Kind_new(byte) ==
    CASE byte % 4 = 0 -> "Integer"
      [] byte % 4 = 1 -> "Real"
      [] byte % 4 = 2 -> "Bool"
      [] byte % 4 = 3 -> "Str"

\* MathOperator::new
MathOperator_new(b) ==
    CASE b = 0 -> "Add"
      [] b = 1 -> "Sub"
      [] b = 2 -> "Mul"
      [] b = 3 -> "Div"

\* RelationalOperator::new
RelationalOperator_new(b) ==
    CASE b = 4 -> "GreatEq"
      [] b = 5 -> "Greater"
      [] b = 6 -> "LessEq"
      [] b = 7 -> "Less"
      [] b = 8 -> "Equal"
      [] b = 9 -> "NotEqual"

\* Operator::new
Operator_new(b) == IF b <= 3 THEN MathOperator_new(b) ELSE RelationalOperator_new(b)

\* ControlFlow::new
ControlFlow_new(byte) ==
    CASE byte = JUMP -> "Jump"
      [] byte = JEQ -> "JumpTrue"
      [] byte = JNE -> "JumpFalse"
      [] byte = LBL -> "Label"
      [] byte = CALL -> "Call"
      [] byte = RET -> "Ret"

\* ------------------------------------------------- program_load.rs: bytes
\* ByteSpec: parse_data over a byte buffer.  buff[i] of the source is
\* buff[i + 1] here; the indices kept in the state and in the errors are the
\* zero-based ones of the source.
Ok(v) == [ok |-> TRUE, value |-> v]

\* LoadError::MissingBytes(ErrorLocation::new(index, length, err))
MissingBytes(i, length, err) ==
    [ok |-> FALSE,
     error |-> [error |-> "MissingBytes", index |-> i, length |-> length, err |-> err]]

\* LoadError::UnknownByte(UnknownByteError::new(value, index))
UnknownByte(value, i) == [error |-> "UnknownByte", value |-> value, index |-> i]

\* take_bytes
take_bytes(buff, start, len) ==
    IF Len(buff) > start + len - 1
    THEN Ok(SubSeq(buff, start + 1, start + len))
    ELSE MissingBytes(start, len, "LoadingStr")

\* get_u16 that asks for one byte only
get_u16_one_byte(buff, i) ==
    IF Len(buff) > i
    THEN Ok(buff[i + 1] * 256 + (IF Len(buff) > i + 1 THEN buff[i + 2] ELSE 0))
    ELSE MissingBytes(i, 2, "LoadingU16")

\* get_u16: u16::from_be_bytes
get_u16(buff, i) ==
    IF Len(buff) > i + 1
    THEN Ok(buff[i + 1] * 256 + buff[i + 2])
    ELSE MissingBytes(i, 2, "LoadingU16")

\* get_i32 that reads the bytes as little-endian
get_i32_le(buff, i) ==
    IF Len(buff) > i + 3
    THEN Ok((IF buff[i + 4] >= 128 THEN buff[i + 4] - 256 ELSE buff[i + 4]) * 16777216
            + buff[i + 3] * 65536 + buff[i + 2] * 256 + buff[i + 1])
    ELSE MissingBytes(i, 4, "LoadingI32")

\* get_i32: i32::from_be_bytes, two's complement
get_i32(buff, i) ==
    IF Len(buff) > i + 3
    THEN Ok((IF buff[i + 1] >= 128 THEN buff[i + 1] - 256 ELSE buff[i + 1]) * 16777216
            + buff[i + 2] * 65536 + buff[i + 3] * 256 + buff[i + 4])
    ELSE MissingBytes(i, 4, "LoadingI32")

\* get_f64: f64::from_be_bytes.  A real is kept as its two 32-bit words,
\* [hi, lo], the sign and exponent in hi.
get_f64(buff, i) ==
    IF Len(buff) > i + 7
    THEN Ok([hi |-> get_i32(buff, i).value, lo |-> get_i32(buff, i + 4).value])
    ELSE MissingBytes(i, 8, "LoadingF64")

\* get_boolean
get_boolean(buff, i) ==
    IF Len(buff) > i
    THEN CASE buff[i + 1] = 255 -> Ok(TRUE)
           [] buff[i + 1] = 0 -> Ok(FALSE)
           [] OTHER -> [ok |-> FALSE,
                        error |-> [error |-> "BooleanEncodeError", value |-> buff[i + 1]]]
    ELSE MissingBytes(i, 1, "LoadingBool")

\* str::from_utf8 on the byte strings of the streams below: they hold no
\* multi-byte sequence, and their bytes above 127 (254, 255) occur in no
\* UTF-8 text
from_utf8(bytes) ==
    IF \A k \in DOMAIN bytes : bytes[k] < 128
    THEN Ok(bytes)
    ELSE [ok |-> FALSE, error |-> [error |-> "StringEncodeError"]]

\* get_memory_command: the four counts, the first short read is the error
get_memory_command(i, buff) ==
    LET a == get_u16(buff, i)
        b == get_u16(buff, i + 2)
        c == get_u16(buff, i + 4)
        d == get_u16(buff, i + 6)
    IN
    CASE ~a.ok -> a
      [] a.ok /\ ~b.ok -> b
      [] a.ok /\ b.ok /\ ~c.ok -> c
      [] a.ok /\ b.ok /\ c.ok /\ ~d.ok -> d
      [] OTHER -> Ok(MemorySize(a.value, b.value, c.value, d.value))

\* convert_single
convert_single(byte) ==
    CASE byte = EXT -> Command("Exit", "none", 0)
      [] byte \in ADDI .. NEI -> Command("Integer", Operator_new(byte), 0)
      [] byte \in ADDR .. NER -> Command("Real", Operator_new(byte - 10), 0)
      [] byte \in RDI .. RDS -> Command("Input", Kind_new(byte), 0)
      [] byte \in WRI .. WRS -> Command("Output", Kind_new(byte), 0)
      [] byte = FLU -> Command("Flush", "Flush", 0)
      [] byte = FLN -> Command("Flush", "NewLine", 0)
      [] byte = CSTI -> Command("CastInt", "none", 0)
      [] byte = CSTR -> Command("CastReal", "none", 0)
      [] byte = OR -> Command("Or", "none", 0)
      [] byte = AND -> Command("And", "none", 0)
      [] byte = BFOR -> Command("ForControl", "New", 0)
      [] byte = CFOR -> Command("ForControl", "Check", 0)
      [] byte = EFOR -> Command("ForControl", "End", 0)
      [] byte = NEGI -> Command("Unary", "Integer", 0)
      [] byte = NEGR -> Command("Unary", "Real", 0)
      [] byte = NOT -> Command("Unary", "Bool", 0)
      [] byte \in GEQS .. NES -> Command("StrCompare", RelationalOperator_new(byte - 63), 0)
      [] byte \in GEQB .. NEB -> Command("BoolCompare", RelationalOperator_new(byte - 69), 0)

\* is_single_command: Option<Command>
is_single_command(byte) ==
    IF \/ byte \in ADDI .. AND
       \/ byte \in RDI .. WRS
       \/ byte = FLN
       \/ byte = FLU
       \/ byte = EXT
       \/ byte \in BFOR .. NOT
       \/ byte \in GEQS .. NEB
    THEN <<convert_single(byte)>>
    ELSE <<>>

\* is_address_command: Ok(Some((cmd, offset))), Ok(None) or the error of get_u16
is_address_command(i, buff) ==
    LET byte == buff[i + 1]
        addr == get_u16(buff, i + 1)
    IN
    CASE byte \in LDI .. STRS ->
            IF ~addr.ok THEN addr
            ELSE Ok(<<[cmd |-> Command(IF byte < STRI THEN "MemoryLoad" ELSE "MemoryStore",
                                       Kind_new(byte), addr.value),
                       offset |-> 3]>>)
      [] byte \in JUMP .. RET ->
            IF byte = RET THEN Ok(<<[cmd |-> Command("Ret", "none", 0), offset |-> 1]>>)
            ELSE IF ~addr.ok THEN addr
            ELSE Ok(<<[cmd |-> Command(ControlFlow_new(byte), "none", addr.value),
                       offset |-> 3]>>)
      [] byte \in STRIP .. STRSP ->
            IF ~addr.ok THEN addr
            ELSE Ok(<<[cmd |-> Command("StoreParam", Kind_new(byte), addr.value),
                       offset |-> 3]>>)
      [] byte = PARAM ->
            IF ~addr.ok THEN addr
            ELSE Ok(<<[cmd |-> Command("NewRecord", "none", addr.value), offset |-> 3]>>)
      [] OTHER -> Ok(<<>>)

\* convert_constant: Ok((Constant, offset)) and the pool after it, or the error
convert_constant(i, buff, str_mem) ==
    LET size  == get_u16(buff, i + 1)
        bytes == take_bytes(buff, i + 3, size.value)
    IN
    CASE buff[i + 1] % 4 = 3 ->
            IF get_i32(buff, i + 1).ok
            THEN Ok([kind |-> "Integer", value |-> get_i32(buff, i + 1).value,
                     offset |-> 4, mem |-> str_mem])
            ELSE get_i32(buff, i + 1)
      [] buff[i + 1] % 4 = 0 ->
            IF get_f64(buff, i + 1).ok
            THEN Ok([kind |-> "Real", value |-> get_f64(buff, i + 1).value,
                     offset |-> 8, mem |-> str_mem])
            ELSE get_f64(buff, i + 1)
      [] buff[i + 1] % 4 = 1 ->
            IF get_boolean(buff, i + 1).ok
            THEN Ok([kind |-> "Bool", value |-> get_boolean(buff, i + 1).value,
                     offset |-> 1, mem |-> str_mem])
            ELSE get_boolean(buff, i + 1)
      [] buff[i + 1] % 4 = 2 ->
            IF ~size.ok THEN size
            ELSE IF ~bytes.ok THEN bytes
            ELSE IF ~from_utf8(bytes.value).ok THEN from_utf8(bytes.value)
            ELSE LET ins == insert_static_string(str_mem, from_utf8(bytes.value).value) IN
                 Ok([kind |-> "Str", value |-> ins.key, offset |-> size.value + 2,
                     mem |-> ins.mem])

\* is_constant_command that leaves the opcode byte out of the offset
is_constant_command_offset_of_payload(i, buff, str_mem) ==
    IF buff[i + 1] \in LDIC .. LDSC
    THEN LET r == convert_constant(i, buff, str_mem) IN
         IF ~r.ok THEN r
         ELSE Ok(<<[cmd |-> Command("ConstantLoad", r.value.kind, r.value.value),
                    offset |-> r.value.offset, mem |-> r.value.mem]>>)
    ELSE Ok(<<>>)

\* is_constant_command: Ok(Some((cmd, offset))) with the pool, Ok(None) or the error
is_constant_command(i, buff, str_mem) ==
    IF buff[i + 1] \in LDIC .. LDSC
    THEN LET r == convert_constant(i, buff, str_mem) IN
         IF ~r.ok THEN r
         ELSE Ok(<<[cmd |-> Command("ConstantLoad", r.value.kind, r.value.value),
                    offset |-> r.value.offset + 1, mem |-> r.value.mem]>>)
    ELSE Ok(<<>>)

\* u16::to_be_bytes, as the tests of program_load.rs build their streams
u16_to_be_bytes(n) == <<n \div 256, n % 256>>

\* i32::to_be_bytes, two's complement
i32_to_be_bytes(n) ==
    <<(n \div 16777216) % 256, (n \div 65536) % 256, (n \div 256) % 256, n % 256>>

\* f64::to_be_bytes of the real [hi, lo]
f64_to_be_bytes(r) == i32_to_be_bytes(r.hi) \o i32_to_be_bytes(r.lo)

\* 6.80 of test_load_f64: 0x401B3333 33333333
Real_6_80 == [hi |-> 1075524403, lo |-> 858993459]

\* add_init_header with the counts of size
InitHeader(size) ==
    <<INIT>> \o u16_to_be_bytes(size.integer_count) \o u16_to_be_bytes(size.real_count)
             \o u16_to_be_bytes(size.boolean_count) \o u16_to_be_bytes(size.string_count)

\* the constants the streams encode
ByteIntegers == {-2}
ByteReals == {Real_6_80}
ByteStrings == {<<97, 0>>}

\* the encoding of ConstantLoad(kind, v)
EncodeConstant(kind, v) ==
    CASE kind = "Integer" -> <<LDIC>> \o i32_to_be_bytes(v)
      [] kind = "Real" -> <<LDRC>> \o f64_to_be_bytes(v)
      [] kind = "Bool" -> <<LDBC, IF v THEN 255 ELSE 0>>
      [] kind = "Str" -> <<LDSC>> \o u16_to_be_bytes(Len(v)) \o v

\* the pieces the streams are made of: whole commands, a header, single
\* bytes (0 is ADDI and a zero of a payload, RET and FUNC stand alone, 255 is
\* no opcode), and opcodes cut off from their payload, which the next piece
\* then supplies or fails to
Chunks ==
    {InitHeader(MemorySize(1, 2, 3, 4))}
    \cup {EncodeConstant("Integer", v) : v \in ByteIntegers}
    \cup {EncodeConstant("Real", v) : v \in ByteReals}
    \cup {EncodeConstant("Bool", TRUE), <<LDBC, 1>>}
    \cup {EncodeConstant("Str", v) : v \in ByteStrings}
    \cup {<<JUMP, 0, 1>>, <<RET>>, <<FUNC>>, <<0>>, <<255>>}
    \cup {<<INIT>>, <<LDIC>>, <<LDRC>>, <<LDBC>>, <<LDSC>>, <<LDSC, 0, 2>>, <<JUMP>>,
          <<STRS>>}

RECURSIVE Concat(_)
Concat(pieces) ==
    IF pieces = <<>> THEN <<>> ELSE pieces[1] \o Concat(SubSeq(pieces, 2, Len(pieces)))

\* the byte buffers parse_data is given
Streams == UNION {{Concat(p) : p \in [1 .. n -> Chunks]} : n \in 0 .. MaxChunks}

ByteInit ==
    /\ status = "load"
    /\ curr_block = 0
    /\ index = 0
    /\ cmd = NoCommand
    /\ string_memory = StringMemory_new
    /\ str_stack = <<>>
    /\ bool_stack = <<>>
    /\ int_stack = <<>>
    /\ real_stack = <<>>
    /\ prog_mem = <<>>
    /\ global_memory = <<>>
    /\ stack_vect = <<>>
    /\ next_record = <<>>
    /\ issued = <<>>
    /\ executed = 0
    /\ factory = ProgramFactory_new
    /\ data \in Streams
    /\ prog = <<>>
    /\ IoInit

\* what no turn of the loop of parse_data touches
byte_rest == <<curr_block, str_stack, bool_stack, int_stack, real_stack, global_memory,
               stack_vect, next_record, issued, data, reader, stdin, for_loop_stack>>

\* one turn of `while index < data.len()`
ByteTurn ==
    /\ status = "load"
    /\ index < Len(data)
    /\ executed' = executed + 1
    /\ UNCHANGED byte_rest

\* return Err(e): no program is returned
ByteError(e) ==
    /\ status' = "load_error"
    /\ returned' = <<e>>
    /\ UNCHANGED <<index, cmd, factory, string_memory, prog, prog_mem>>

\* factory.add_command(cmd); index += offset
ByteCommand(c, offset, mem) ==
    /\ status' = "load"
    /\ cmd' = c
    /\ factory' = add_command(factory, c)
    /\ index' = index + offset
    /\ string_memory' = mem
    /\ UNCHANGED <<returned, prog, prog_mem>>

\* if let Some(cmd) = is_single_command(data[index])
ByteSingle ==
    /\ ByteTurn
    /\ is_single_command(data[index + 1]) # <<>>
    /\ ByteCommand(is_single_command(data[index + 1])[1], 1, string_memory)

\* else if let Some((cmd, offset)) = is_address_command(index, &data)?
ByteAddress ==
    LET r == is_address_command(index, data) IN
    /\ ByteTurn
    /\ is_single_command(data[index + 1]) = <<>>
    /\ r.ok => r.value # <<>>
    /\ IF r.ok THEN ByteCommand(r.value[1].cmd, r.value[1].offset, string_memory)
       ELSE ByteError(r.error)

\* else if let Some((cmd, offset)) = is_constant_command(index, &data, &mut string_memory)?
ByteConstant ==
    LET a == is_address_command(index, data)
        r == is_constant_command(index, data, string_memory)
    IN
    /\ ByteTurn
    /\ is_single_command(data[index + 1]) = <<>>
    /\ a.ok /\ a.value = <<>>
    /\ r.ok => r.value # <<>>
    /\ IF r.ok THEN ByteCommand(r.value[1].cmd, r.value[1].offset, r.value[1].mem)
       ELSE ByteError(r.error)

\* none of the three classes has the byte data[index]
NoCommandByte ==
    /\ is_single_command(data[index + 1]) = <<>>
    /\ is_address_command(index, data) = Ok(<<>>)
    /\ is_constant_command(index, data, string_memory) = Ok(<<>>)

\* else if data[index] == opcode::FUNC
ByteFunc ==
    /\ ByteTurn
    /\ NoCommandByte
    /\ data[index + 1] = FUNC
    /\ status' = "load"
    /\ factory' = switch_function(factory)
    /\ index' = index + 1
    /\ UNCHANGED <<cmd, string_memory, returned, prog, prog_mem>>

\* else if data[index] == opcode::INIT
ByteMemorySize ==
    LET r == get_memory_command(index + 1, data) IN
    /\ ByteTurn
    /\ NoCommandByte
    /\ data[index + 1] # FUNC
    /\ data[index + 1] = INIT
    /\ IF r.ok
       THEN /\ status' = "load"
            /\ factory' = add_memory_size(factory, r.value)
            /\ index' = index + 9
            /\ UNCHANGED <<cmd, string_memory, returned, prog, prog_mem>>
       ELSE ByteError(r.error)

\* else: return Err(LoadError::UnknownByte(err))
ByteUnknown ==
    /\ ByteTurn
    /\ NoCommandByte
    /\ data[index + 1] \notin {FUNC, INIT}
    /\ ByteError(UnknownByte(data[index + 1], index))

\* the loop is left: factory.build_program(), Ok((prog, mem, string_memory))
ByteBuild ==
    /\ status = "load"
    /\ index >= Len(data)
    /\ IF build_program_panics(factory)
       THEN /\ status' = "panic"
            /\ UNCHANGED <<prog, prog_mem>>
       ELSE /\ status' = "loaded"
            /\ prog' = <<build_program(factory).prog>>
            /\ prog_mem' = build_program(factory).mem
    /\ UNCHANGED <<index, cmd, factory, string_memory, returned, executed>>
    /\ UNCHANGED byte_rest

ByteNext ==
    \/ ByteSingle
    \/ ByteAddress
    \/ ByteConstant
    \/ ByteFunc
    \/ ByteMemorySize
    \/ ByteUnknown
    \/ ByteBuild

ByteSpec == ByteInit /\ [][ByteNext]_vars

\* ------------------------------------------------- line_reader.rs
\* A String is the sequence of its chars; indices into it are byte offsets
\* of its UTF-8 form, as in the source.
Chars == {"1", " ", "e'"}

\* char::len_utf8: "e'" is a letter with an accent, two bytes long
len_utf8(c) == IF c = "e'" THEN 2 ELSE 1

\* char::is_ascii_whitespace
is_ascii_whitespace(c) == c \in {" ", "\n"}

\* the byte offset at which the char after the first k chars of s starts
RECURSIVE OffsetOf(_, _)
OffsetOf(s, k) == IF k = 0 THEN 0 ELSE OffsetOf(s, k - 1) + len_utf8(s[k])

\* str::len, in bytes
str_len(s) == OffsetOf(s, Len(s))

\* str::is_char_boundary
is_char_boundary(s, off) == \E k \in 0 .. Len(s) : OffsetOf(s, k) = off

\* the number of chars of s before the boundary off
CharsBefore(s, off) == CHOOSE k \in 0 .. Len(s) : OffsetOf(s, k) = off

\* &s[a..b] panics unless a <= b <= s.len() are char boundaries
slice_panics(s, a, b) ==
    ~(a <= b /\ b <= str_len(s) /\ is_char_boundary(s, a) /\ is_char_boundary(s, b))

\* &s[a..b]
slice(s, a, b) == SubSeq(s, CharsBefore(s, a) + 1, CharsBefore(s, b))

\* the for loop of find_next_token: s[k] is the next char of
\* s[begin..].chars(), i the number zipped with it; [stat, begin, end] when
\* the loop is left
RECURSIVE token_loop(_, _, _, _, _, _)
token_loop(s, stat, begin, end, k, i) ==
    IF k > Len(s) \/ stat = "End"
    THEN [stat |-> stat, begin |-> begin, end |-> end]
    ELSE IF stat = "Begin"
         THEN IF is_ascii_whitespace(s[k])
              THEN token_loop(s, "Begin", begin, end, k + 1, i + 1)
              ELSE token_loop(s, "Token", i, end, k + 1, i + 1)
         ELSE IF is_ascii_whitespace(s[k])
              THEN token_loop(s, "End", begin, i, k + 1, i + 1)
              ELSE token_loop(s, "Token", begin, end, k + 1, i + 1)

\* find_next_token: [panics], or Option<(&str, usize)> as output, a sequence
\* of at most one [token, begin]
find_next_token(begin, s) ==
    IF begin = str_len(s) THEN [panics |-> FALSE, output |-> <<>>]
    ELSE IF slice_panics(s, begin, str_len(s)) THEN [panics |-> TRUE]
    ELSE LET r == token_loop(s, "Begin", begin, begin, CharsBefore(s, begin) + 1, begin) IN
         CASE r.stat = "Begin" -> [panics |-> FALSE, output |-> <<>>]
           [] r.stat = "Token" ->
                IF slice_panics(s, r.begin, str_len(s)) THEN [panics |-> TRUE]
                ELSE [panics |-> FALSE,
                      output |-> <<[token |-> slice(s, r.begin, str_len(s)),
                                    begin |-> str_len(s)]>>]
           [] r.stat = "End" ->
                IF slice_panics(s, r.begin, r.end) THEN [panics |-> TRUE]
                ELSE [panics |-> FALSE,
                      output |-> <<[token |-> slice(s, r.begin, r.end), begin |-> r.end]>>]

\* StringBuffer::from_string
StringBuffer_from_string(s) == [buff |-> <<s>>, begin |-> 0]

\* StringBuffer::new
StringBuffer_new == [buff |-> <<>>, begin |-> 0]

\* StringBuffer::next_token: [panics], or the buffer after the call and the
\* Option<&str> it returns
next_token(sb) ==
    IF sb.buff = <<>> THEN [panics |-> FALSE, buffer |-> sb, output |-> <<>>]
    ELSE LET r == find_next_token(sb.begin, sb.buff[1]) IN
         IF r.panics THEN [panics |-> TRUE]
         ELSE IF r.output = <<>> THEN [panics |-> FALSE, buffer |-> sb, output |-> <<>>]
         ELSE [panics |-> FALSE,
               buffer |-> [sb EXCEPT !.begin = r.output[1].begin],
               output |-> <<r.output[1].token>>]

\* get_buffer that leaves the line in the buffer
get_buffer_keeps_line(sb) ==
    IF sb.buff = <<>> THEN [panics |-> FALSE, buffer |-> sb, output |-> <<>>]
    ELSE LET s == sb.buff[1] IN
         IF str_len(s) = 0 \/ sb.begin = 0
         THEN [panics |-> FALSE, buffer |-> sb, output |-> <<s>>]
         ELSE IF sb.begin = str_len(s)
         THEN [panics |-> FALSE, buffer |-> sb, output |-> <<>>]
         ELSE IF slice_panics(s, sb.begin, str_len(s)) THEN [panics |-> TRUE]
         ELSE [panics |-> FALSE, buffer |-> sb,
               output |-> <<slice(s, sb.begin, str_len(s))>>]

\* StringBuffer::get_buffer: self.buff.take() leaves None in the buffer
get_buffer(sb) ==
    LET taken == [sb EXCEPT !.buff = <<>>] IN
    IF sb.buff = <<>> THEN [panics |-> FALSE, buffer |-> taken, output |-> <<>>]
    ELSE LET s == sb.buff[1] IN
         IF str_len(s) = 0 \/ sb.begin = 0
         THEN [panics |-> FALSE, buffer |-> taken, output |-> <<s>>]
         ELSE IF sb.begin = str_len(s)
         THEN [panics |-> FALSE, buffer |-> taken, output |-> <<>>]
         ELSE IF slice_panics(s, sb.begin, str_len(s)) THEN [panics |-> TRUE]
         ELSE [panics |-> FALSE, buffer |-> taken,
               output |-> <<slice(s, sb.begin, str_len(s))>>]

\* BufferSpec: a StringBuffer made by from_string of a line, then any
\* sequence of next_token and get_buffer calls, as in the tests of
\* line_reader.rs.  data is the line, returned the results of the calls.
Lines == UNION {[1 .. n -> Chars] : n \in 0 .. MaxLine}

\* the result of one call
Call(name, output) == [call |-> name, output |-> output, panics |-> FALSE]

\* a call that panicked
Panicked(name) == [call |-> name, output |-> <<>>, panics |-> TRUE]

BufferInit ==
    /\ status = "run"
    /\ curr_block = 0
    /\ index = 0
    /\ cmd = NoCommand
    /\ string_memory = StringMemory_new
    /\ str_stack = <<>>
    /\ bool_stack = <<>>
    /\ int_stack = <<>>
    /\ real_stack = <<>>
    /\ prog_mem = <<>>
    /\ global_memory = <<>>
    /\ stack_vect = <<>>
    /\ next_record = <<>>
    /\ issued = <<>>
    /\ executed = 0
    /\ factory = <<>>
    /\ prog = <<>>
    /\ data \in Lines
    /\ reader = StringBuffer_from_string(data)
    /\ stdin = <<>>
    /\ for_loop_stack = <<>>
    /\ returned = <<>>

\* a call of the method r is the result of
BufferCall(name, r) ==
    /\ status = "run"
    /\ executed < MaxCalls
    /\ executed' = executed + 1
    /\ IF r.panics
       THEN /\ status' = "panic"
            /\ returned' = Append(returned, Panicked(name))
            /\ UNCHANGED reader
       ELSE /\ status' = "run"
            /\ reader' = r.buffer
            /\ returned' = Append(returned, Call(name, r.output))
    /\ UNCHANGED <<curr_block, index, cmd, string_memory, str_stack, bool_stack, int_stack,
                   real_stack, prog_mem, global_memory, stack_vect, next_record, issued,
                   factory, prog, data, stdin, for_loop_stack>>

BufferNextToken == BufferCall("next_token", next_token(reader))

BufferGetBuffer == BufferCall("get_buffer", get_buffer(reader))

BufferNext ==
    \/ BufferNextToken
    \/ BufferGetBuffer

BufferSpec == BufferInit /\ [][BufferNext]_vars

\* ------------------------------------------------- engine.rs: i32 and f64
MaxI32 == 2147483647

MinI32 == -2147483647 - 1

\* 2^31 \div y for 1 < y <= MaxI32
Pow31Div(y) == MaxI32 \div y + (IF MaxI32 % y = y - 1 THEN 1 ELSE 0)

Abs(a) == IF a < 0 THEN -a ELSE a

\* lhs + rhs, lhs - rhs and lhs * rhs do not fit in an i32
add_overflows(a, b) == (b > 0 /\ a > MaxI32 - b) \/ (b < 0 /\ a < MinI32 - b)

sub_overflows(a, b) == (b < 0 /\ a > MaxI32 + b) \/ (b > 0 /\ a < MinI32 + b)

mul_overflows(a, b) ==
    IF a = 0 \/ b = 0 THEN FALSE
    ELSE IF a = MinI32 THEN b # 1
    ELSE IF b = MinI32 THEN a # 1
    ELSE IF (a > 0) = (b > 0) THEN Abs(a) > MaxI32 \div Abs(b)
    ELSE Abs(b) # 1 /\ Abs(a) > Pow31Div(Abs(b))

\* i32::wrapping_add, wrapping_sub, wrapping_neg, wrapping_mul: what a build
\* without overflow checks computes
wrapping_add(a, b) ==
    IF b > 0 /\ a > MaxI32 - b THEN (a - MaxI32 - 1) + (b - MaxI32 - 1)
    ELSE IF b < 0 /\ a < MinI32 - b THEN (a + MaxI32 + 1) + (b + MaxI32 + 1)
    ELSE a + b

wrapping_sub(a, b) ==
    IF b < 0 /\ a > MaxI32 + b THEN (a - MaxI32 - 1) - (b + MaxI32 + 1)
    ELSE IF b > 0 /\ a < MinI32 + b THEN (a + MaxI32 + 1) - (b - MaxI32 - 1)
    ELSE a - b

wrapping_neg(a) == IF a = MinI32 THEN MinI32 ELSE -a

\* x * y modulo 2^16 and x * y \div 2^16 for x, y in 0 .. 65535
MulLow16(x, y) ==
    ((x % 256) * (y % 256)
       + (((x \div 256) * (y % 256) + (x % 256) * (y \div 256)) % 256) * 256) % 65536

MulHigh16(x, y) ==
    (x \div 256) * (y \div 256)
       + (((x \div 256) * (y % 256) + (x % 256) * (y \div 256)) * 256
            + (x % 256) * (y % 256)) \div 65536

wrapping_mul(a, b) ==
    LET al == a % 65536
        ah == (a \div 65536) % 65536
        bl == b % 65536
        bh == (b \div 65536) % 65536
        lo == MulLow16(al, bl)
        hi == (MulHigh16(al, bl) + MulLow16(ah, bl) + MulLow16(al, bh)) % 65536
    IN
    IF hi >= 32768 THEN (hi - 65536) * 65536 + lo ELSE hi * 65536 + lo

\* lhs / rhs panics: division by zero, and MinI32 / -1
div_panics(a, b) == b = 0 \/ (a = MinI32 /\ b = -1)

\* lhs / rhs of i32, which truncates toward zero
i32_div(a, b) ==
    LET q == IF b = MinI32 THEN (IF a = MinI32 THEN 1 ELSE 0)
             ELSE IF a = MinI32 THEN Pow31Div(Abs(b))
             ELSE Abs(a) \div Abs(b)
    IN IF b = 1 THEN a
       ELSE IF (a < 0) = (b < 0) THEN q ELSE -q

\* the outcomes of lhs op rhs on i32: the values (one, or none) and whether
\* the operation may panic.  An overflow panics in a build with overflow
\* checks and wraps in a build without.
i32_op(op, a, b) ==
    CASE op = "Add" -> [values |-> {wrapping_add(a, b)}, panics |-> add_overflows(a, b)]
      [] op = "Sub" -> [values |-> {wrapping_sub(a, b)}, panics |-> sub_overflows(a, b)]
      [] op = "Mul" -> [values |-> {wrapping_mul(a, b)}, panics |-> mul_overflows(a, b)]
      [] op = "Div" -> IF div_panics(a, b) THEN [values |-> {}, panics |-> TRUE]
                       ELSE [values |-> {i32_div(a, b)}, panics |-> FALSE]

\* an f64 as sign and magnitude: num / den in lowest terms for a finite
\* value (0 / 1 for zero, which keeps its sign), 1 / 0 for an infinity,
\* 0 / 0 for NaN.  The values of the model are small dyadic fractions, which
\* an f64 holds exactly.
F64(sgn, num, den) == [sgn |-> sgn, num |-> num, den |-> den]

NaN == F64(1, 0, 0)

is_nan(x) == x.num = 0 /\ x.den = 0

is_infinite(x) == x.num = 1 /\ x.den = 0

is_zero(x) == x.num = 0 /\ x.den = 1

RECURSIVE Gcd(_, _)
Gcd(a, b) == IF b = 0 THEN a ELSE Gcd(b, a % b)

\* the finite f64 of sign sgn and magnitude num / den
Finite(sgn, num, den) ==
    IF num = 0 THEN F64(sgn, 0, 1)
    ELSE F64(sgn, num \div Gcd(num, den), den \div Gcd(num, den))

f64_neg(x) == IF is_nan(x) THEN x ELSE F64(-x.sgn, x.num, x.den)

f64_mul(x, y) ==
    IF is_nan(x) \/ is_nan(y) \/ (is_infinite(x) /\ is_zero(y)) \/ (is_zero(x) /\ is_infinite(y))
    THEN NaN
    ELSE IF is_infinite(x) \/ is_infinite(y) THEN F64(x.sgn * y.sgn, 1, 0)
    ELSE Finite(x.sgn * y.sgn, x.num * y.num, x.den * y.den)

f64_div(x, y) ==
    IF is_nan(x) \/ is_nan(y) \/ (is_infinite(x) /\ is_infinite(y)) \/ (is_zero(x) /\ is_zero(y))
    THEN NaN
    ELSE IF is_infinite(x) \/ is_zero(y) THEN F64(x.sgn * y.sgn, 1, 0)
    ELSE IF is_infinite(y) THEN F64(x.sgn * y.sgn, 0, 1)
    ELSE Finite(x.sgn * y.sgn, x.num * y.den, x.den * y.num)

f64_add(x, y) ==
    IF is_nan(x) \/ is_nan(y) \/ (is_infinite(x) /\ is_infinite(y) /\ x.sgn # y.sgn) THEN NaN
    ELSE IF is_infinite(x) THEN x
    ELSE IF is_infinite(y) THEN y
    ELSE LET n == x.sgn * x.num * y.den + y.sgn * y.num * x.den IN
         IF n = 0
         THEN F64(IF is_zero(x) /\ is_zero(y) /\ x.sgn = -1 /\ y.sgn = -1 THEN -1 ELSE 1, 0, 1)
         ELSE Finite(IF n < 0 THEN -1 ELSE 1, Abs(n), x.den * y.den)

f64_sub(x, y) == f64_add(x, f64_neg(y))

\* lhs op rhs on f64
f64_op(op, a, b) ==
    CASE op = "Add" -> f64_add(a, b)
      [] op = "Sub" -> f64_sub(a, b)
      [] op = "Mul" -> f64_mul(a, b)
      [] op = "Div" -> f64_div(a, b)

\* PartialOrd::partial_cmp of two values of one kind: "Less", "Equal",
\* "Greater", or "None" for an f64 comparison with NaN
Ordering(a, b) == IF a < b THEN "Less" ELSE IF a = b THEN "Equal" ELSE "Greater"

f64_partial_cmp(x, y) ==
    IF is_nan(x) \/ is_nan(y) THEN "None"
    ELSE IF is_infinite(x) \/ is_infinite(y)
    THEN Ordering(IF is_infinite(x) THEN x.sgn ELSE 0, IF is_infinite(y) THEN y.sgn ELSE 0)
    ELSE Ordering(x.sgn * x.num * y.den, y.sgn * y.num * x.den)

partial_cmp(kind, l, r) ==
    CASE kind = "Integer" -> Ordering(l, r)
      [] kind = "Real" -> f64_partial_cmp(l, r)
      [] kind = "Bool" -> Ordering(IF l THEN 1 ELSE 0, IF r THEN 1 ELSE 0)

\* binary_rel_operation for i32, f64 and bool, on the ordering of lhs and rhs
binary_rel_operation_of(op, kind, lhs, rhs) ==
    LET ord == partial_cmp(kind, lhs, rhs) IN
    CASE op = "GreatEq" -> ord \in {"Greater", "Equal"}
      [] op = "Greater" -> ord = "Greater"
      [] op = "LessEq" -> ord \in {"Less", "Equal"}
      [] op = "Less" -> ord = "Less"
      [] op = "Equal" -> ord = "Equal"
      [] op = "NotEqual" -> ord # "Equal"

\* the outcomes of a command: a panic, or the value and the stack left
Panics == [panics |-> TRUE, value |-> 0, stack |-> <<>>]

Yields(v, stack) == [panics |-> FALSE, value |-> v, stack |-> stack]

\* math_operation with the operands the other way round
math_operation_rhs_first(op, kind, stack) ==
    IF Len(stack) < 2 THEN {Panics}
    ELSE LET rhs == stack[Len(stack) - 1]
             lhs == stack[Len(stack)]
             rest == SubSeq(stack, 1, Len(stack) - 2)
         IN
         IF kind = "Real" THEN {Yields(f64_op(op, lhs, rhs), rest)}
         ELSE {Yields(v, rest) : v \in i32_op(op, lhs, rhs).values}
              \cup (IF i32_op(op, lhs, rhs).panics THEN {Panics} ELSE {})

\* math_operation: rhs = stack.pop().unwrap(); lhs = stack.pop().unwrap();
\* lhs op rhs.  The set of its outcomes.
math_operation(op, kind, stack) ==
    IF Len(stack) < 2 THEN {Panics}
    ELSE LET rhs == stack[Len(stack)]
             lhs == stack[Len(stack) - 1]
             rest == SubSeq(stack, 1, Len(stack) - 2)
         IN
         IF kind = "Real" THEN {Yields(f64_op(op, lhs, rhs), rest)}
         ELSE {Yields(v, rest) : v \in i32_op(op, lhs, rhs).values}
              \cup (IF i32_op(op, lhs, rhs).panics THEN {Panics} ELSE {})

\* rel_operation
rel_operation(op, kind, stack) ==
    IF Len(stack) < 2 THEN Panics
    ELSE LET rhs == stack[Len(stack)]
             lhs == stack[Len(stack) - 1]
         IN Yields(binary_rel_operation_of(op, kind, lhs, rhs), SubSeq(stack, 1, Len(stack) - 2))

MathOps == {"Add", "Sub", "Mul", "Div"}

\* ------------------------------------------------- line_reader.rs: LineReader
\* String::pop: the last char is removed, whatever it is
string_pop(s) == SubSeq(s, 1, Len(s) - 1)

\* ReadError::EOF
EOF == [error |-> "EOF", token |-> <<>>]

\* ParseError::Parse(tok).to_read_error(k)
to_read_error(k, tok) ==
    [error |-> CASE k = "Integer" -> "IntParseError"
                 [] k = "Real" -> "RealParseError"
                 [] k = "Bool" -> "BoolParseError",
     token |-> tok]

\* read_from_stdin on a standard input that holds a line: get_line gives the
\* line with its newline, if it has one
read_from_stdin(in) == [buff |-> <<string_pop(Head(in))>>, begin |-> 0]

Digits == {"1", "2"}

\* the number a string of digits denotes
RECURSIVE Decimal(_)
Decimal(tok) ==
    IF tok = <<>> THEN 0
    ELSE 10 * Decimal(SubSeq(tok, 1, Len(tok) - 1)) + (IF tok[Len(tok)] = "1" THEN 1 ELSE 2)

\* parse_token: tok.parse() for i32, f64 and bool, on the tokens of the
\* lines below (strings of digits, "true", and tokens with other letters)
parse_token(k, tok) ==
    CASE k \in {"Integer", "Real"} ->
            IF \A j \in DOMAIN tok : tok[j] \in Digits
            THEN [ok |-> TRUE,
                  value |-> IF k = "Integer" THEN Decimal(tok) ELSE F64(1, Decimal(tok), 1)]
            ELSE [ok |-> FALSE]
      [] k = "Bool" ->
            IF tok = <<"t", "r", "u", "e">> THEN [ok |-> TRUE, value |-> TRUE]
            ELSE IF tok = <<"f", "a", "l", "s", "e">> THEN [ok |-> TRUE, value |-> FALSE]
            ELSE [ok |-> FALSE]

\* LineReader::next_string: [panics], or the Result with the buffer and the
\* standard input after the call
RECURSIVE next_string(_, _)
next_string(sb, in) ==
    LET g == get_buffer(sb) IN
    IF g.panics THEN [panics |-> TRUE]
    ELSE IF g.output # <<>>
    THEN [panics |-> FALSE, ok |-> TRUE, value |-> g.output[1],
          buffer |-> g.buffer, stdin |-> in]
    ELSE IF in = <<>>
    THEN [panics |-> FALSE, ok |-> FALSE, error |-> EOF, buffer |-> g.buffer, stdin |-> in]
    ELSE next_string(read_from_stdin(in), Tail(in))

\* LineReader::next (next_i32, next_f64, next_bool)
RECURSIVE next(_, _, _)
next(k, sb, in) ==
    LET t == next_token(sb) IN
    IF t.panics THEN [panics |-> TRUE]
    ELSE IF t.output # <<>>
    THEN IF parse_token(k, t.output[1]).ok
         THEN [panics |-> FALSE, ok |-> TRUE, value |-> parse_token(k, t.output[1]).value,
               buffer |-> t.buffer, stdin |-> in]
         ELSE [panics |-> FALSE, ok |-> FALSE, error |-> to_read_error(k, t.output[1]),
               buffer |-> t.buffer, stdin |-> in]
    ELSE IF in = <<>>
    THEN [panics |-> FALSE, ok |-> FALSE, error |-> EOF, buffer |-> t.buffer, stdin |-> in]
    ELSE next(k, read_from_stdin(in), Tail(in))

\* ReadSpec: programs of Input commands run on a standard input of lines.
\* The texts of the lines:
LineTexts ==
    {<<>>, <<" ">>, <<"1">>, <<"1", " ">>, <<"1", " ", "2">>, <<" ", "2", "1">>,
     <<"t", "r", "u", "e">>, <<"e'", " ", "1">>}

\* standard input: every line ends with a newline, but the last one need not
Stdins ==
    UNION {[1 .. n -> {t \o <<"\n">> : t \in LineTexts}] : n \in 0 .. MaxLines}
    \cup UNION {{Append(ls, t) : ls \in [1 .. n - 1 -> {u \o <<"\n">> : u \in LineTexts}],
                                 t \in LineTexts \ {<<>>}} : n \in 1 .. MaxLines}

ReadInit ==
    /\ status = "run"
    /\ curr_block = 0
    /\ index = 0
    /\ cmd = NoCommand
    /\ string_memory = StringMemory_new
    /\ str_stack = <<>>
    /\ bool_stack = <<>>
    /\ int_stack = <<>>
    /\ real_stack = <<>>
    /\ prog_mem = [main |-> MemorySize(0, 0, 0, 0), func |-> <<>>]
    /\ global_memory = EngineMemory_new(MemorySize(0, 0, 0, 0))
    /\ stack_vect = <<>>
    /\ next_record = <<>>
    /\ issued = <<>>
    /\ executed = 0
    /\ factory = <<>>
    /\ prog = <<>>
    /\ data = <<>>
    /\ reader = StringBuffer_new
    /\ stdin \in Stdins
    /\ for_loop_stack = <<>>
    /\ returned = <<>>

\* a command Input(k) is fetched; r is what the reader answers
ReadFetch(k, r) ==
    /\ status = "run"
    /\ executed < MaxReads
    /\ executed' = executed + 1
    /\ cmd' = Command("Input", k, 0)
    /\ index' = index + 1
    /\ UNCHANGED <<curr_block, prog_mem, global_memory, stack_vect, next_record, factory,
                   prog, data, for_loop_stack>>
    /\ IF r.panics
       THEN /\ status' = "panic"
            /\ string_memory' = clean(string_memory)
            /\ UNCHANGED <<reader, stdin, returned, issued,
                           int_stack, real_stack, bool_stack, str_stack>>
       ELSE /\ reader' = r.buffer
            /\ stdin' = r.stdin
            /\ IF r.ok
               THEN status' = "run" /\ returned' = <<>>
               ELSE /\ status' = "read_error"
                    /\ returned' = <<r.error>>
                    /\ string_memory' = clean(string_memory)
                    /\ UNCHANGED <<issued, int_stack, real_stack, bool_stack, str_stack>>

\* Command::Input(Integer | Real | Bool): input() with reader.next_i32()?,
\* next_f64()?, next_bool()?
ReadTyped ==
    \E k \in {"Integer", "Real", "Bool"} :
        LET r == next(k, reader, stdin) IN
        /\ ReadFetch(k, r)
        /\ (~r.panics /\ r.ok) =>
              /\ int_stack' = IF k = "Integer" THEN Append(int_stack, r.value) ELSE int_stack
              /\ real_stack' = IF k = "Real" THEN Append(real_stack, r.value) ELSE real_stack
              /\ bool_stack' = IF k = "Bool" THEN Append(bool_stack, r.value) ELSE bool_stack
              /\ string_memory' = clean(string_memory)
              /\ UNCHANGED <<str_stack, issued>>

\* Command::Input(Str): input() with reader.next_string()?
ReadString ==
    LET r == next_string(reader, stdin) IN
    /\ ReadFetch("Str", r)
    /\ (~r.panics /\ r.ok) =>
          LET ins == insert_string(clean(string_memory), r.value)
              q == push(str_stack, ins.mem, ins.key)
          IN
          /\ string_memory' = decrement(q.mem, ins.key)
          /\ str_stack' = q.stack
          /\ issued' = Append(issued, Issue(ins.key, r.value, "Dynamic"))
          /\ UNCHANGED <<int_stack, real_stack, bool_stack>>

ReadNext ==
    \/ ReadTyped
    \/ ReadString

ReadSpec == ReadInit /\ [][ReadNext]_vars

\* ------------------------------------------------- engine.rs: runs of a code
\* JumpSpec, ForSpec and AluSpec: run_program on a program whose main block
\* is a given code and that has no function.  The state before the first
\* command, but for the program:
EngineStart(pool) ==
    /\ status = "run"
    /\ curr_block = 0
    /\ index = 0
    /\ cmd = NoCommand
    /\ string_memory = pool
    /\ str_stack = <<>>
    /\ bool_stack = <<>>
    /\ int_stack = <<>>
    /\ real_stack = <<>>
    /\ prog_mem = [main |-> MemorySize(0, 0, 0, 0), func |-> <<>>]
    /\ global_memory = EngineMemory_new(MemorySize(0, 0, 0, 0))
    /\ stack_vect = <<>>
    /\ next_record = <<>>
    /\ issued = <<>>
    /\ executed = 0
    /\ factory = <<>>
    /\ data = <<>>
    /\ reader = StringBuffer_new
    /\ stdin = <<>>
    /\ for_loop_stack = <<>>
    /\ returned = <<>>

\* the program whose main block is code
ProgramOf(code) == [body |-> Block_new(code), func |-> <<>>]

\* the program is one of the codes of up to max commands of the table
CodeInit(table, max) ==
    \E n \in 0 .. max : \E f \in [1 .. n -> DOMAIN table] :
        prog = <<ProgramOf([j \in 1 .. n |-> table[f[j]]])>>

\* curr_block.code
Code == prog[1].body.code

\* while index < curr_block.code.len(): cmd = &curr_block.code[index];
\* index += 1; string_memory.clean().  The actions set index.
CodeFetch ==
    /\ status = "run"
    /\ index < Len(Code)
    /\ executed < MaxRun
    /\ executed' = executed + 1
    /\ cmd' = Code[index + 1]
    /\ string_memory' = clean(string_memory)
    /\ UNCHANGED <<curr_block, prog_mem, global_memory, stack_vect, next_record, issued,
                   factory, prog, data, reader, stdin, returned>>

\* a panic ends the process
CodePanic ==
    /\ status' = "panic"
    /\ UNCHANGED <<index, str_stack, bool_stack, int_stack, real_stack, for_loop_stack>>

\* index < curr_block.code.len() is false: Ok(())
CodeEnd ==
    /\ status = "run"
    /\ index >= Len(Code)
    /\ status' = "end"
    /\ UNCHANGED <<curr_block, index, cmd, string_memory, str_stack, bool_stack, int_stack,
                   real_stack, prog_mem, global_memory, stack_vect, next_record, issued,
                   executed, factory, prog, data, reader, stdin, for_loop_stack, returned>>

\* Command::ConstantLoad(load) for Bool, Integer and Real: load_constant
CodeConstant ==
    /\ CodeFetch
    /\ Code[index + 1].op = "ConstantLoad"
    /\ status' = "run"
    /\ index' = index + 1
    /\ LET c == Code[index + 1] IN
       /\ bool_stack' = IF c.kind = "Bool" THEN Append(bool_stack, c.arg) ELSE bool_stack
       /\ int_stack' = IF c.kind = "Integer" THEN Append(int_stack, c.arg) ELSE int_stack
       /\ real_stack' = IF c.kind = "Real" THEN Append(real_stack, c.arg) ELSE real_stack
    /\ UNCHANGED <<str_stack, for_loop_stack>>

\* ------------------------------------------------- engine.rs: jumps
\* JumpSpec: codes of labels, jumps and constants
JumpTable ==
    <<Command("Label", "none", 0), Command("Label", "none", 1),
      Command("Jump", "none", 0), Command("Jump", "none", 1),
      Command("JumpTrue", "none", 0), Command("JumpTrue", "none", 1),
      Command("JumpFalse", "none", 0), Command("JumpFalse", "none", 1),
      Command("ConstantLoad", "Bool", TRUE), Command("ConstantLoad", "Bool", FALSE),
      Command("ConstantLoad", "Integer", 1)>>

JumpInit == EngineStart(StringMemory_new) /\ CodeInit(JumpTable, MaxCode)

\* ControlFlow::Label => {}
JumpLabel ==
    /\ CodeFetch
    /\ Code[index + 1].op = "Label"
    /\ status' = "run"
    /\ index' = index + 1
    /\ UNCHANGED <<str_stack, bool_stack, int_stack, real_stack, for_loop_stack>>

\* jump => next_addr = curr_block.labels[addr]; index = run_jump(...).
\* Indexing the HashMap with a label that is not in it panics.
JumpControl ==
    LET c == Code[index + 1]
        labels == prog[1].body.labels
    IN
    /\ CodeFetch
    /\ c.op \in {"Jump", "JumpTrue", "JumpFalse"}
    /\ IF c.arg \notin DOMAIN labels THEN CodePanic
       ELSE LET r == run_jump(c.op, index + 1, labels[c.arg], bool_stack) IN
            IF r.panics THEN CodePanic
            ELSE /\ status' = "run"
                 /\ index' = r.index
                 /\ bool_stack' = r.stack
                 /\ UNCHANGED <<str_stack, int_stack, real_stack, for_loop_stack>>

JumpNext ==
    \/ JumpLabel
    \/ JumpControl
    \/ CodeConstant
    \/ CodeEnd

JumpSpec == JumpInit /\ [][JumpNext]_vars

\* ------------------------------------------------- for_loop_stack.rs
\* ForLoopStack::process_new: [panics], or the two stacks after the call
process_new(stack, ints) ==
    IF ints = <<>> THEN [panics |-> TRUE]
    ELSE [panics |-> FALSE,
          stack |-> Append(stack, ints[Len(ints)]),
          int_stack |-> SubSeq(ints, 1, Len(ints) - 1)]

\* process_check that takes the counter off the for-loop stack
process_check_moves(stack, ints) ==
    IF stack = <<>> THEN [panics |-> TRUE]
    ELSE [panics |-> FALSE,
          stack |-> SubSeq(stack, 1, Len(stack) - 1),
          int_stack |-> Append(ints, stack[Len(stack)])]

\* ForLoopStack::process_check
process_check(stack, ints) ==
    IF stack = <<>> THEN [panics |-> TRUE]
    ELSE [panics |-> FALSE, stack |-> stack, int_stack |-> Append(ints, stack[Len(stack)])]

\* ForLoopStack::process_end: the Option that Vec::pop returns is dropped
process_end(stack, ints) ==
    [panics |-> FALSE,
     stack |-> IF stack = <<>> THEN stack ELSE SubSeq(stack, 1, Len(stack) - 1),
     int_stack |-> ints]

\* ForLoopStack::process_command
process_command(ctrl, stack, ints) ==
    CASE ctrl = "Check" -> process_check(stack, ints)
      [] ctrl = "End" -> process_end(stack, ints)
      [] ctrl = "New" -> process_new(stack, ints)

\* ForSpec: codes of integer constants and for-loop commands
ForTable ==
    <<Command("ConstantLoad", "Integer", 1), Command("ConstantLoad", "Integer", 2),
      Command("ForControl", "New", 0), Command("ForControl", "Check", 0),
      Command("ForControl", "End", 0)>>

ForInit == EngineStart(StringMemory_new) /\ CodeInit(ForTable, MaxForCode)

\* Command::ForControl(control) =>
\*     for_loop_stack.process_command(control, &mut engine_stack.int_stack)
ForStep(ctrl) ==
    LET r == process_command(ctrl, for_loop_stack, int_stack) IN
    /\ CodeFetch
    /\ Code[index + 1].op = "ForControl"
    /\ IF r.panics THEN CodePanic
       ELSE /\ status' = "run"
            /\ index' = index + 1
            /\ for_loop_stack' = r.stack
            /\ int_stack' = r.int_stack
            /\ UNCHANGED <<str_stack, bool_stack, real_stack>>

\* ForControl::New
ForNew ==
    /\ index < Len(Code)
    /\ Code[index + 1].kind = "New"
    /\ ForStep("New")

\* ForControl::Check
ForCheck ==
    /\ index < Len(Code)
    /\ Code[index + 1].kind = "Check"
    /\ ForStep("Check")

\* ForControl::End
ForEnd ==
    /\ index < Len(Code)
    /\ Code[index + 1].kind = "End"
    /\ ForStep("End")

ForNext ==
    \/ ForNew
    \/ ForCheck
    \/ ForEnd
    \/ CodeConstant
    \/ CodeEnd

ForSpec == ForInit /\ [][ForNext]_vars

\* ------------------------------------------------- engine.rs: operators
\* AluSpec: constants and binary operators in any order.  The pool holds the
\* two string constants of the program.
AluPool == LoadedPool(<<"a", "b">>)

AluInit == EngineStart(AluPool) /\ prog = <<>>

\* the constants of the ConstantLoad commands
AluConstants ==
    [Integer |-> {0, 2, MaxI32},
     Real |-> {F64(1, 1, 2), F64(1, 2, 1)},
     Bool |-> {TRUE, FALSE},
     Str |-> {0, 1}]

\* a command c is fetched: index += 1; string_memory.clean()
AluFetch(c) ==
    /\ status = "run"
    /\ executed < MaxAluRun
    /\ executed' = executed + 1
    /\ cmd' = c
    /\ UNCHANGED <<curr_block, prog_mem, global_memory, stack_vect, next_record, issued,
                   factory, prog, data, reader, stdin, returned, for_loop_stack>>

AluPanic ==
    /\ status' = "panic"
    /\ string_memory' = clean(string_memory)
    /\ UNCHANGED <<index, str_stack, bool_stack, int_stack, real_stack>>

\* Command::ConstantLoad(load) => load_constant
AluConstant ==
    \E kind \in {"Integer", "Real", "Bool", "Str"} : \E v \in AluConstants[kind] :
        /\ AluFetch(Command("ConstantLoad", kind, v))
        /\ IF kind = "Str" /\ push_panics(clean(string_memory), v) THEN AluPanic
           ELSE /\ status' = "run"
                /\ index' = index + 1
                /\ int_stack' = IF kind = "Integer" THEN Append(int_stack, v) ELSE int_stack
                /\ real_stack' = IF kind = "Real" THEN Append(real_stack, v) ELSE real_stack
                /\ bool_stack' = IF kind = "Bool" THEN Append(bool_stack, v) ELSE bool_stack
                /\ str_stack' = IF kind = "Str" THEN push(str_stack, clean(string_memory), v).stack
                                ELSE str_stack
                /\ string_memory' = IF kind = "Str" THEN push(str_stack, clean(string_memory), v).mem
                                    ELSE clean(string_memory)

\* full_math_operation(op, numbers, booleans) on the stack of kind
full_math_operation(op, kind, numbers) ==
    /\ AluFetch(Command(kind, op, 0))
    /\ IF op \in MathOps
       THEN \E r \in math_operation(op, kind, numbers) :
               IF r.panics THEN AluPanic
               ELSE /\ status' = "run"
                    /\ index' = index + 1
                    /\ string_memory' = clean(string_memory)
                    /\ int_stack' = IF kind = "Integer" THEN Append(r.stack, r.value) ELSE int_stack
                    /\ real_stack' = IF kind = "Real" THEN Append(r.stack, r.value) ELSE real_stack
                    /\ UNCHANGED <<bool_stack, str_stack>>
       ELSE LET r == rel_operation(op, kind, numbers) IN
            IF r.panics THEN AluPanic
            ELSE /\ status' = "run"
                 /\ index' = index + 1
                 /\ string_memory' = clean(string_memory)
                 /\ int_stack' = IF kind = "Integer" THEN r.stack ELSE int_stack
                 /\ real_stack' = IF kind = "Real" THEN r.stack ELSE real_stack
                 /\ bool_stack' = Append(bool_stack, r.value)
                 /\ UNCHANGED str_stack

\* Command::Integer(cmd)
AluInteger ==
    \E op \in MathOps \cup RelOps :
        /\ status = "run"
        /\ full_math_operation(op, "Integer", int_stack)

\* Command::Real(cmd)
AluReal ==
    \E op \in MathOps \cup RelOps :
        /\ status = "run"
        /\ full_math_operation(op, "Real", real_stack)

\* Command::StrCompare(cmd)
AluStrCompare ==
    \E op \in RelOps :
        LET r == binary_operation(op, str_stack, clean(string_memory)) IN
        /\ AluFetch(Command("StrCompare", op, 0))
        /\ IF r.panics THEN AluPanic
           ELSE /\ status' = "run"
                /\ index' = index + 1
                /\ string_memory' = r.mem
                /\ str_stack' = r.stack
                /\ bool_stack' = Append(bool_stack, r.res)
                /\ UNCHANGED <<int_stack, real_stack>>

\* Command::BoolCompare(cmd)
AluBoolCompare ==
    \E op \in RelOps :
        LET r == rel_operation(op, "Bool", bool_stack) IN
        /\ AluFetch(Command("BoolCompare", op, 0))
        /\ IF r.panics THEN AluPanic
           ELSE /\ status' = "run"
                /\ index' = index + 1
                /\ string_memory' = clean(string_memory)
                /\ bool_stack' = Append(r.stack, r.value)
                /\ UNCHANGED <<int_stack, real_stack, str_stack>>

AluNext ==
    \/ AluConstant
    \/ AluInteger
    \/ AluReal
    \/ AluStrCompare
    \/ AluBoolCompare

AluSpec == AluInit /\ [][AluNext]_vars

\* ------------------------------------------------- notions the claims use
Buff == string_memory.buff

IsDynamic(sm, h) == h \in DOMAIN sm.buff /\ sm.buff[h].str_type = "Dynamic"

RefCount(sm, h) == sm.buff[h].ref_count

\* the program has a string constant: handle 0 is a Static entry
HandleZeroStatic == 0 \in DOMAIN Buff /\ Buff[0].str_type = "Static"

\* every EngineMemory alive: the global frame, the installed records, the pending one
Frames ==
    <<global_memory>> \o [i \in 1 .. Len(stack_vect) |-> stack_vect[i].func_mem]
                      \o [i \in 1 .. Len(next_record) |-> next_record[i].func_mem]

\* occurrences of h in a vector of handles
Occurrences(seq, h) == Cardinality({i \in DOMAIN seq : seq[i] = h})

\* the cells of mem that a store filled with h and that still hold it
StoredCells(mem, h) ==
    Cardinality({i \in DOMAIN mem.str_mem : mem.str_set[i] /\ mem.str_mem[i] = h})

RECURSIVE SumStored(_, _, _)
SumStored(frames, h, i) ==
    IF i > Len(frames) THEN 0
    ELSE StoredCells(frames[i], h) + SumStored(frames, h, i + 1)

\* the places that hold h: the string operand stack and the stored cells
Holders(h) == Occurrences(str_stack, h) + SumStored(Frames, h, 1)

LiveHandles ==
    {str_stack[i] : i \in DOMAIN str_stack}
    \cup UNION {{Frames[f].str_mem[i] : i \in {j \in DOMAIN Frames[f].str_mem : Frames[f].str_set[j]}}
                : f \in DOMAIN Frames}

\* a command was executed by this step, and it did not panic
Executed(op) == executed' = executed + 1 /\ cmd'.op = op /\ status' # "panic"

RECURSIVE SumOver(_, _, _)
SumOver(S, sm1, sm2) ==
    IF S = {} THEN 0
    ELSE LET h == CHOOSE x \in S : TRUE IN
         (RefCount(sm1, h) - RefCount(sm2, h)) + SumOver(S \ {h}, sm1, sm2)

Max(a, b) == IF a > b THEN a ELSE b

\* ------------------------------------------------- claims
\* C1: after every executed command, every handle on the string operand stack
\* or stored into a string cell (global, installed record, pending record) and
\* not overwritten since has an entry in the pool.
C1_LiveHandlesInPool ==
    status # "panic" => \A h \in LiveHandles : h \in DOMAIN Buff

\* C2: after every executed command, the refcount of each Dynamic entry equals
\* the number of places holding its handle (stack occurrences plus stored cells).
C2_RefcountEqualsHolders ==
    status # "panic" =>
        \A h \in DOMAIN Buff : IsDynamic(string_memory, h) => RefCount(string_memory, h) = Holders(h)

\* the pool of a store step right after the incoming handle was popped
MidPool == pop(str_stack, clean(string_memory)).mem

\* the handle a store step pops
Incoming == str_stack[Len(str_stack)]

\* the EngineMemory a store of this step writes, and the cell in it
StoreFrame(op, addr) ==
    IF ~IsLocal(addr) THEN global_memory
    ELSE IF op = "StoreParam" THEN next_record[1].func_mem
    ELSE stack_vect[Len(stack_vect)].func_mem

StoreCell(addr) == IF IsLocal(addr) THEN addr - LOCAL_MASK + 1 ELSE addr + 1

\* the handle the addressed cell holds before the store
CellBefore(op, addr) == StoreFrame(op, addr).str_mem[StoreCell(addr)]

\* whether a store wrote the addressed cell before
CellSetBefore(op, addr) == StoreFrame(op, addr).str_set[StoreCell(addr)]

\* C3, as claimed: measured from right after the pop of the incoming handle H,
\* a MemoryStore(Str) raises the refcount of H by exactly one, lowers by one
\* only the handle the cell held, and changes no other entry.  Stated for the
\* stores into a cell that a store wrote before, in runs where handle 0 is a
\* Static entry, so that the 0 of a cell never written (C4) plays no part.
C3_StoreRaisesIncomingByOne ==
    [][(/\ Executed("MemoryStore")
        /\ CellSetBefore("MemoryStore", cmd'.arg)
        /\ HandleZeroStatic) =>
        LET H == Incoming
            prev == CellBefore("MemoryStore", cmd'.arg)
        IN
        /\ DOMAIN Buff' = DOMAIN MidPool.buff
        /\ H \in DOMAIN Buff'
        /\ RefCount(string_memory', H) = RefCount(MidPool, H) + 1
        /\ \A h \in DOMAIN MidPool.buff \ {H} :
              \/ RefCount(string_memory', h) = RefCount(MidPool, h)
              \/ /\ RefCount(string_memory', h) = RefCount(MidPool, h) - 1
                 /\ h = prev
      ]_vars

\* C3, amended: measured from right after the pop of the incoming handle H, a
\* MemoryStore(Str) raises the refcount of H by one when H is Dynamic and is not
\* the handle the cell held, and leaves it unchanged when H is Static or is the
\* handle the cell held; another handle drops by one exactly when it is the
\* Dynamic handle the cell held and its count is positive; nothing else changes.
C3_StoreRefcountDelta ==
    [][Executed("MemoryStore") =>
        LET H == Incoming
            prev == CellBefore("MemoryStore", cmd'.arg)
        IN
        /\ DOMAIN Buff' = DOMAIN MidPool.buff
        /\ H \in DOMAIN Buff'
        /\ RefCount(string_memory', H) =
              RefCount(MidPool, H) + (IF IsDynamic(MidPool, H) /\ H # prev THEN 1 ELSE 0)
        /\ \A h \in DOMAIN MidPool.buff \ {H} :
              RefCount(string_memory', h) =
                 RefCount(MidPool, h) -
                    (IF h = prev /\ IsDynamic(MidPool, h) /\ RefCount(MidPool, h) > 0
                     THEN 1 ELSE 0)
        /\ \A h \in DOMAIN Buff' :
              /\ Buff'[h].string = MidPool.buff[h].string
              /\ Buff'[h].str_type = MidPool.buff[h].str_type
      ]_vars

\* C3 witness: in a program with a string constant, a MemoryStore has put a
\* Dynamic handle into a global cell and released another Dynamic handle,
\* whose count is now zero.
C3_Witness ==
    /\ status = "run"
    /\ HandleZeroStatic
    /\ cmd.op = "MemoryStore"
    /\ ~IsLocal(cmd.arg)
    /\ LET H == global_memory.str_mem[cmd.arg + 1] IN
       /\ IsDynamic(string_memory, H)
       /\ RefCount(string_memory, H) = 1
       /\ \E h \in DOMAIN Buff \ {H} :
             /\ IsDynamic(string_memory, h)
             /\ RefCount(string_memory, h) = 0
             /\ Holders(h) = 0

\* the record a Ret of this step pops
Popped == stack_vect[Len(stack_vect)]

\* the cells of mem that hold h and that a store wrote
SetCellsHolding(mem, h) ==
    Cardinality({i \in DOMAIN mem.str_mem : mem.str_set[i] /\ mem.str_mem[i] = h})

\* the cell a MemoryLoad of this step reads was written by a store
LoadCellSet(addr) ==
    (IF IsLocal(addr) THEN stack_vect[Len(stack_vect)].func_mem ELSE global_memory)
        .str_set[StoreCell(addr)]

\* the handles of the program's strings: its constants and the lines it read
ProgramStrings == {issued[i].key : i \in DOMAIN issued}

\* C4: a string cell never stored to does not stand for a program string: a
\* store into it lowers no refcount, a Ret lowers refcounts only for the cells of
\* the popped record that a store wrote, and a MemoryLoad from it aborts or
\* yields a sentinel that is none of the program's strings.
C4_UnsetCellIsNoProgramString ==
    [][/\ \A op \in {"MemoryStore", "StoreParam"} :
             (Executed(op) /\ ~CellSetBefore(op, cmd'.arg)) =>
                 \A h \in DOMAIN MidPool.buff :
                     h \in DOMAIN Buff' /\ RefCount(string_memory', h) >= RefCount(MidPool, h)
       /\ Executed("Ret") =>
             \A h \in DOMAIN clean(string_memory).buff :
                 RefCount(string_memory', h) >=
                    RefCount(clean(string_memory), h) - SetCellsHolding(Popped.func_mem, h)
       /\ (Executed("MemoryLoad") /\ ~LoadCellSet(cmd'.arg)) =>
             str_stack'[Len(str_stack')] \notin ProgramStrings
      ]_vars

\* C4, the three cases one by one
C4_StoreIntoUnsetCell ==
    [][\A op \in {"MemoryStore", "StoreParam"} :
          (Executed(op) /\ ~CellSetBefore(op, cmd'.arg)) =>
              \A h \in DOMAIN MidPool.buff :
                  h \in DOMAIN Buff' /\ RefCount(string_memory', h) >= RefCount(MidPool, h)
      ]_vars

C4_RetOverUnsetCell ==
    [][Executed("Ret") =>
          \A h \in DOMAIN clean(string_memory).buff :
              RefCount(string_memory', h) >=
                 RefCount(clean(string_memory), h) - SetCellsHolding(Popped.func_mem, h)
      ]_vars

C4_LoadFromUnsetCell ==
    [][(Executed("MemoryLoad") /\ ~LoadCellSet(cmd'.arg)) =>
          str_stack'[Len(str_stack')] \notin ProgramStrings
      ]_vars

\* C5, as claimed: a Ret with a non-empty call stack lowers the refcounts of
\* the pool by as many units in total as the popped record has string cells.
\* Stated for the records whose string cells were all written by a store, in
\* runs where handle 0 is a Static entry, so that the 0 of a cell never
\* written (C4) plays no part.
C5_RetDropsOnePerCell ==
    [][(/\ Executed("Ret")
        /\ \A i \in DOMAIN Popped.func_mem.str_set : Popped.func_mem.str_set[i]
        /\ HandleZeroStatic) =>
        /\ DOMAIN Buff' = DOMAIN clean(string_memory).buff
        /\ SumOver(DOMAIN Buff', clean(string_memory), string_memory')
              = Len(Popped.func_mem.str_mem)
      ]_vars

\* C5, amended: a Ret with a non-empty call stack applies decrement once for
\* each string cell of the popped record and to nothing else: a Dynamic entry
\* drops by the number of cells of the record that hold its handle, stopping at
\* zero, and every Static entry is unchanged; no entry is added or removed.
C5_RetDecrementsCellHandles ==
    [][Executed("Ret") =>
        /\ DOMAIN Buff' = DOMAIN clean(string_memory).buff
        /\ \A h \in DOMAIN Buff' :
              /\ Buff'[h].string = clean(string_memory).buff[h].string
              /\ Buff'[h].str_type = clean(string_memory).buff[h].str_type
              /\ RefCount(string_memory', h) =
                    IF IsDynamic(clean(string_memory), h)
                    THEN Max(0, RefCount(clean(string_memory), h)
                                  - Occurrences(Popped.func_mem.str_mem, h))
                    ELSE RefCount(clean(string_memory), h)
      ]_vars

\* C5 witness: in a program with a string constant, a Ret has popped a record
\* and released a Dynamic string that nothing else holds.
C5_Witness ==
    /\ status = "run"
    /\ HandleZeroStatic
    /\ cmd.op = "Ret"
    /\ \E h \in DOMAIN Buff :
          /\ IsDynamic(string_memory, h)
          /\ RefCount(string_memory, h) = 0
          /\ Holders(h) = 0

\* ------------------------------------------------- C6 .. C10
PoolInserts == {"insert_static_string", "insert_string"}

\* the handles issued for Dynamic strings that are no longer in the pool
RemovedDynamic ==
    {issued[i].key : i \in {j \in DOMAIN issued : issued[j].str_type = "Dynamic"}}
        \ DOMAIN Buff

\* C6: a Static entry is immortal.  Whatever calls of increment, decrement,
\* push, pop, remove_strings and clean follow, every handle returned by
\* insert_static_string is in the pool, with the string it was inserted with,
\* type Static and the refcount 1 it started with.
C6_StaticImmortal ==
    \A i \in DOMAIN issued :
        issued[i].str_type = "Static" =>
            /\ issued[i].key \in DOMAIN Buff
            /\ Buff[issued[i].key] = [string |-> issued[i].string,
                                      ref_count |-> 1,
                                      str_type |-> "Static"]

\* C6 witness: a Static entry has just been decremented, in a pool from which
\* a clean already removed a Dynamic entry.
C6_Witness ==
    /\ status = "run"
    /\ cmd.op = "decrement"
    /\ \E i \in DOMAIN issued : issued[i].str_type = "Static" /\ issued[i].key = cmd.arg
    /\ RemovedDynamic # {}

\* C7: the release of the last reference.  A call other than clean removes no
\* entry and changes no string, so an entry whose refcount reached zero stays
\* resolvable; clean removes exactly the entries whose refcount is zero; no
\* refcount ever goes below zero, and a decrement or pop applied at refcount
\* zero leaves it at zero.
C7_LastReleaseThenClean ==
    [][executed' # executed =>
        /\ cmd'.op # "clean" =>
              \A h \in DOMAIN Buff :
                  /\ ~get_string_panics(string_memory', h)
                  /\ get_string(string_memory', h) = get_string(string_memory, h)
        /\ cmd'.op = "clean" =>
              DOMAIN Buff' = {h \in DOMAIN Buff : RefCount(string_memory, h) > 0}
        /\ \A h \in DOMAIN Buff' : RefCount(string_memory', h) >= 0
        /\ \A h \in DOMAIN Buff :
              (cmd'.op \in {"decrement", "pop", "remove_strings"}
                  /\ RefCount(string_memory, h) = 0) =>
              (h \in DOMAIN Buff' /\ RefCount(string_memory', h) = 0)
      ]_vars

\* C7 witness: a clean has just removed a Dynamic entry, and a Dynamic entry
\* inserted after it is still in the pool.
C7_Witness ==
    /\ status = "run"
    /\ cmd.op = "clean"
    /\ \E h \in RemovedDynamic :
          \E k \in DOMAIN Buff : k > h /\ IsDynamic(string_memory, k)

C9_HandlesNeverReused ==
    /\ \A i, j \in DOMAIN issued : i < j => issued[i].key < issued[j].key
    /\ cmd.op \in PoolInserts =>
          /\ cmd.arg = issued[Len(issued)].key
          /\ cmd.arg \in DOMAIN Buff
          /\ RefCount(string_memory, cmd.arg) = 1

\* C9 witness: an insert has just returned its handle after an entry with a
\* smaller handle was removed from the pool.
C9_Witness ==
    /\ status = "run"
    /\ cmd.op \in PoolInserts
    /\ \E h \in RemovedDynamic : h < cmd.arg

\* C10, as claimed: get_string, increment or decrement of a handle that has no
\* entry in the pool aborts the run.
C10_PoolMissIsFatal ==
    [][(/\ executed' # executed
        /\ cmd'.op \in {"get_string", "increment", "decrement"}
        /\ cmd'.arg \notin DOMAIN Buff) =>
           status' = "panic"
      ]_vars

\* ------------------------------------------------- C11 .. C13, C18
\* a command was fetched and dispatched by this step, whatever came of it
Dispatched(op) == executed' = executed + 1 /\ cmd'.op = op

\* C11, as claimed: a Call executed while no record is pending aborts the run.
C11_CallWithoutRecordIsFatal ==
    [][(Dispatched("Call") /\ next_record = <<>>) => status' = "panic"]_vars

\* C12: a Ret executed with an empty call stack aborts the run.  Past the
\* index += 1 and the clean that precede the dispatch of every command, the
\* Ret changes nothing: the block, the call stack, the pending record, the
\* memories and the operand stacks are as before, and no refcount has moved.
C12_RetOnEmptyStackIsFatal ==
    [][(Dispatched("Ret") /\ stack_vect = <<>>) =>
          /\ status' = "panic"
          /\ curr_block' = curr_block
          /\ index' = index + 1
          /\ string_memory' = clean(string_memory)
          /\ UNCHANGED <<stack_vect, next_record, global_memory, str_stack, bool_stack>>
      ]_vars

\* C12 witness: a Ret has aborted a run whose call stack was empty while a
\* record was pending.
C12_Witness ==
    /\ status = "panic"
    /\ cmd.op = "Ret"
    /\ stack_vect = <<>>
    /\ next_record # <<>>

\* C13, as claimed: the record a Call installs names as its return site the
\* block that executes the Call and the index after the Call, and the Ret that
\* pops a record continues at the return site of that record.
C13_ReturnSiteIsCallSite ==
    [][/\ (Executed("Call") /\ next_record # <<>>) =>
             /\ stack_vect'[Len(stack_vect')].return_block = curr_block
             /\ stack_vect'[Len(stack_vect')].return_index = index + 1
       /\ (Executed("Ret") /\ stack_vect # <<>>) =>
             /\ curr_block' = stack_vect[Len(stack_vect)].return_block
             /\ index' = stack_vect[Len(stack_vect)].return_index
      ]_vars

\* C18, as claimed: a run that leaves the loop without Exit is in the main
\* block with an empty call stack.
C18_EndsInMainBlock ==
    status = "end" => (curr_block = 0 /\ stack_vect = <<>>)

\* ------------------------------------------------- C14 .. C16
\* the LOCAL flag and the 15-bit cell index of a 16-bit address
TopBitSet(a) == a >= LOCAL_MASK

CellOf(a) == (a % LOCAL_MASK) + 1

\* the frame of Frames an address selects: the global one, or the record on
\* top of the call stack
FrameOf(a) == IF TopBitSet(a) THEN 1 + Len(stack_vect) ELSE 1

\* the operand stack of kind k
StackOf(k) == EngineStack[StackField(k)]

\* the cells of every memory alive: frame, kind, position
AllCells ==
    {<<g, k, j>> \in (DOMAIN Frames) \X Kinds \X (1 .. MemCells + 1) :
        j \in DOMAIN Frames[g][MemField(k)]}

\* C14: address decoding.  A MemoryStore(k, a) that completes writes the
\* popped value into cell a of the global k-vector when the top bit of a is
\* clear, and into cell a - 2^15 of the k-vector of the record on top of the
\* call stack when it is set; every other cell of the global memory, of the
\* installed records and of the pending record keeps its value.  A
\* MemoryLoad(k, a) that completes pushes the value of that same cell and
\* changes no cell.
C14_AddressDecoding ==
    [][/\ Executed("MemoryStore") =>
             LET k == cmd'.kind
                 a == cmd'.arg
             IN
             /\ TopBitSet(a) => stack_vect # <<>>
             /\ DOMAIN Frames' = DOMAIN Frames
             /\ \A c \in AllCells :
                   Frames'[c[1]][MemField(c[2])][c[3]] =
                      IF c = <<FrameOf(a), k, CellOf(a)>>
                      THEN StackOf(k)[Len(StackOf(k))]
                      ELSE Frames[c[1]][MemField(c[2])][c[3]]
       /\ \A k \in Kinds, a \in MemAddrs :
             (Executed("MemoryLoad") /\ cmd'.kind = k /\ cmd'.arg = a) =>
                /\ TopBitSet(a) => stack_vect # <<>>
                /\ Frames' = Frames
                /\ StackOf(k)' = Append(StackOf(k),
                                        Frames[FrameOf(a)][MemField(k)][CellOf(a)])
      ]_vars

\* C14 witness: with a record pending and a record installed, a
\* MemoryStore(Integer, 2^15 + 1) has written cell 1 of the record on top of
\* the call stack, and the same cell of the global memory and of the pending
\* record still holds 0.
C14_Witness ==
    /\ status = "run"
    /\ cmd = Command("MemoryStore", "Integer", LOCAL_MASK + 1)
    /\ stack_vect # <<>>
    /\ next_record # <<>>
    /\ stack_vect[Len(stack_vect)].func_mem.int_mem[2] = 7
    /\ global_memory.int_mem[2] = 0
    /\ next_record[1].func_mem.int_mem[2] = 0

\* C15: a MemoryLoad or MemoryStore of an address with the LOCAL bit set,
\* executed while the call stack is empty, aborts the run, whether or not a
\* record is pending: the global memory and the pending record are not
\* written and nothing is pushed on an operand stack.
C15_LocalWithoutFrameIsFatal ==
    [][(/\ Dispatched("MemoryLoad") \/ Dispatched("MemoryStore")
        /\ TopBitSet(cmd'.arg)
        /\ stack_vect = <<>>) =>
           /\ status' = "panic"
           /\ global_memory' = global_memory
           /\ next_record' = next_record
           /\ \A k \in Kinds : Len(StackOf(k)') <= Len(StackOf(k))
      ]_vars

\* C15 witness: a MemoryStore to a cell that exists in every frame, with the
\* LOCAL bit set and a value to store on the operand stack, has aborted a run
\* that had a pending record and no installed one.
C15_Witness ==
    /\ status = "panic"
    /\ cmd.op = "MemoryStore"
    /\ TopBitSet(cmd.arg)
    /\ CellOf(cmd.arg) <= MemCells
    /\ StackOf(cmd.kind) # <<>>
    /\ stack_vect = <<>>
    /\ next_record # <<>>

\* the four vectors of an EngineMemory
Vectors(mem) == [k \in Kinds |-> mem[MemField(k)]]

\* C16, as claimed: a StoreParam(k, addr) that completes writes the popped
\* value into the k-vector of the pending record, whatever addr is, and leaves
\* the global memory and every installed record unchanged.
C16_StoreParamWritesPending ==
    [][Executed("StoreParam") =>
          /\ Vectors(global_memory') = Vectors(global_memory)
          /\ Len(stack_vect') = Len(stack_vect)
          /\ \A i \in DOMAIN stack_vect :
                Vectors(stack_vect'[i].func_mem) = Vectors(stack_vect[i].func_mem)
          /\ next_record'[1].func_mem[MemField(cmd'.kind)][CellOf(cmd'.arg)]
                = StackOf(cmd'.kind)[Len(StackOf(cmd'.kind))]
      ]_vars

\* ------------------------------------------------- C17, C19, C20
\* the blocks of the loaded program: the body, then the functions
Blocks == <<prog[1].body>> \o prog[1].func

\* the positions of the Control(Label, id) commands of a code, from one
LabelPositions(code, id) ==
    {i \in DOMAIN code : code[i] = Command("Label", "none", id)}

\* C17: the label index of every block of a loaded program.  labels has a
\* mapping for exactly the ids of the Label commands of the block's code,
\* labels[id] is the zero-based position of a Control(Label, id) of that code,
\* and a Jump to an id that has a label continues at that Label command.
C17_LabelIndex ==
    status = "loaded" =>
        \A b \in DOMAIN Blocks :
            LET code   == Blocks[b].code
                labels == Blocks[b].labels
            IN
            /\ DOMAIN labels = {id \in 0 .. MaxLabel : LabelPositions(code, id) # {}}
            /\ \A id \in DOMAIN labels : labels[id] + 1 \in LabelPositions(code, id)
            /\ \A i \in DOMAIN code :
                  (code[i].op = "Jump" /\ code[i].arg \in DOMAIN labels) =>
                      LET r == run_jump("Jump", i, labels[code[i].arg], <<>>) IN
                      /\ ~r.panics
                      /\ r.index + 1 \in LabelPositions(code, code[i].arg)

\* C17 witness: a loaded program with a function block that holds two
\* Control(Label, 0) commands and a Jump to label 0.
C17_Witness ==
    /\ status = "loaded"
    /\ \E k \in DOMAIN prog[1].func :
          /\ Cardinality(LabelPositions(prog[1].func[k].code, 0)) = 2
          /\ \E i \in DOMAIN prog[1].func[k].code :
                prog[1].func[k].code[i] = Command("Jump", "none", 0)

\* the stream read so far, cut at its FUNC units: FuncAt(0) is before the
\* stream, FuncAt(k) is the position of the k-th FUNC, and past the last FUNC
\* comes the end of the stream
FuncPositions == {i \in DOMAIN data : data[i].unit = "FUNC"}

FuncMarkers == Cardinality(FuncPositions)

FuncAt(k) ==
    IF k = 0 THEN 0
    ELSE IF k > FuncMarkers THEN Len(data) + 1
    ELSE CHOOSE i \in FuncPositions : Cardinality({j \in FuncPositions : j <= i}) = k

\* the units between the k-th FUNC and the next one
Segment(k) == SubSeq(data, FuncAt(k) + 1, FuncAt(k + 1) - 1)

IsCmdUnit(u) == u.unit = "cmd"

IsInitUnit(u) == u.unit = "INIT"

\* the commands of segment k, in stream order
SegCommands(k) ==
    LET units == SelectSeq(Segment(k), IsCmdUnit) IN
    [i \in DOMAIN units |-> units[i].cmd]

\* the INIT headers of segment k, in stream order
SegInits(k) ==
    LET units == SelectSeq(Segment(k), IsInitUnit) IN
    [i \in DOMAIN units |-> units[i].size]

\* C19, as claimed: in a loaded program the commands before the first FUNC
\* are the main block, the commands after the k-th FUNC are function block
\* k - 1 (counted from zero), and there are as many function blocks as FUNC
\* units.
C19_BlocksFollowFuncMarkers ==
    status = "loaded" =>
        /\ prog[1].body.code = SegCommands(0)
        /\ Len(prog[1].func) = FuncMarkers
        /\ \A k \in 1 .. FuncMarkers :
              k \in DOMAIN prog[1].func /\ prog[1].func[k].code = SegCommands(k)

\* C20, as claimed: in a program loaded from a stream with one INIT header in
\* the body and one in each function, ProgramMemory.func is as long as
\* Program.func, and for each function its commands and its INIT header are
\* at the same index in the two.
C20_FuncMemoryAligned ==
    (status = "loaded" /\ \A k \in 0 .. FuncMarkers : Len(SegInits(k)) = 1) =>
        /\ Len(prog_mem.func) = Len(prog[1].func)
        /\ \A k \in 1 .. FuncMarkers :
              /\ k \in DOMAIN prog[1].func
              /\ k \in DOMAIN prog_mem.func
              /\ prog[1].func[k].code = SegCommands(k)
              /\ prog_mem.func[k] = SegInits(k)[1]


\* ------------------------------------------------- C21 .. C23
\* bytes of the buffer after the byte at index
Avail == Len(data) - index - 1

\* the opcodes followed by a two-byte address, target or function id
AddressOpcodes == (LDI .. STRS) \cup (JUMP .. CALL) \cup (STRIP .. STRSP) \cup {PARAM}

\* the length a string constant at index declares
DeclaredLength == data[index + 2] * 256 + data[index + 3]

\* <<offset, length>> of the read that falls short when the byte at index
\* is classified, <<>> when the payload is whole; init_short is the answer
\* for an INIT header with fewer than eight bytes after it
ShortRead(init_short) ==
    LET b == data[index + 1] IN
    CASE b \in AddressOpcodes /\ Avail < 2 -> <<index + 1, 2>>
      [] b = LDIC /\ Avail < 4 -> <<index + 1, 4>>
      [] b = LDRC /\ Avail < 8 -> <<index + 1, 8>>
      [] b = LDBC /\ Avail < 1 -> <<index + 1, 1>>
      [] b = LDSC /\ Avail < 2 -> <<index + 1, 2>>
      [] b = LDSC /\ Avail >= 2 /\ Avail < 2 + DeclaredLength -> <<index + 3, DeclaredLength>>
      [] b = INIT /\ Avail < 8 -> init_short
      [] OTHER -> <<>>

\* the turn of parse_data that classifies a byte whose payload is short
\* ends the load with MissingBytes for the read short
ShortReadIsMissingBytes(short) ==
    (status = "load" /\ index < Len(data) /\ short # <<>>)
    => /\ status' = "load_error"
       /\ returned'[1].error = "MissingBytes"
       /\ returned'[1].index = short[1]
       /\ returned'[1].length = short[2]
       /\ prog' = <<>>

\* C21 as stated: an opcode followed by fewer bytes than its payload needs
\* (2 for an address, 4 for an integer, 8 for a real, 1 for a boolean, the
\* length and the bytes of a string, 8 for the INIT counts) makes parse_data
\* return MissingBytes with the offset where the payload starts and the
\* length of the payload, and no program
C21_MissingBytesAtPayload ==
    [][ShortReadIsMissingBytes(ShortRead(<<index + 1, 8>>))]_vars

\* C21 amended: the INIT counts are read as four two-byte counts, and the
\* error carries the offset of the first count that does not fit and the
\* length 2; the other payloads as stated
C21_MissingBytesAtShortRead ==
    [][ShortReadIsMissingBytes(ShortRead(<<index + 1 + 2 * (Avail \div 2), 2>>))]_vars

\* C21: a header and a string constant that declares two bytes and has one
C21_Witness ==
    /\ data = InitHeader(MemorySize(1, 2, 3, 4)) \o <<LDSC, 0, 2>> \o <<0>>
    /\ status = "load_error"
    /\ returned = <<MissingBytes(12, 2, "LoadingStr").error>>
    /\ prog = <<>>


\* byte strings that are one whole command, marker or header each
WholeCommands ==
    {InitHeader(MemorySize(1, 2, 3, 4))}
    \cup {EncodeConstant("Integer", v) : v \in ByteIntegers}
    \cup {EncodeConstant("Real", v) : v \in ByteReals}
    \cup {EncodeConstant("Bool", v) : v \in BOOLEAN}
    \cup {EncodeConstant("Str", v) : v \in ByteStrings}
    \cup {<<JUMP, 0, 1>>, <<STRS, 0, 0>>, <<RET>>, <<FUNC>>, <<ADDI>>}

\* the byte string w stands in data right after the first pos bytes
StandsAt(w, pos) ==
    /\ pos + Len(w) <= Len(data)
    /\ SubSeq(data, pos + 1, pos + Len(w)) = w

\* the offsets of data that whole commands lead to from pos
RECURSIVE WholeEndsFrom(_)
WholeEndsFrom(pos) ==
    {pos} \cup UNION {WholeEndsFrom(pos + Len(w)) : w \in {v \in WholeCommands : StandsAt(v, pos)}}

\* the offsets at which a byte that is no opcode follows whole commands
UnknownAfterWhole ==
    {pos \in WholeEndsFrom(0) : pos < Len(data) /\ data[pos + 1] \notin Opcodes}

\* C22: when a byte that is no opcode follows commands that are whole, the
\* loader stops at no offset inside a command on its way to that byte, and
\* parse_data returns UnknownByte with the value and the index of that byte,
\* and no program
C22_UnknownByteAfterWholeCommands ==
    \A pos \in UnknownAfterWhole :
        /\ status \in {"load", "load_error"}
        /\ status = "load" => index \in {i \in WholeEndsFrom(0) : i <= pos}
        /\ status = "load_error" => returned = <<UnknownByte(data[pos + 1], pos)>>
        /\ prog = <<>>

\* C22: a header, a string constant whose payload holds the byte of ADDI,
\* then 255
C22_Witness ==
    /\ data = InitHeader(MemorySize(1, 2, 3, 4)) \o EncodeConstant("Str", <<97, 0>>) \o <<255>>
    /\ status = "load_error"
    /\ returned = <<UnknownByte(255, 14)>>
    /\ string_memory.index = 1


\* the constants whose encodings the streams hold
EncodedConstants(kind) ==
    CASE kind = "Integer" -> ByteIntegers
      [] kind = "Real" -> ByteReals
      [] kind = "Bool" -> BOOLEAN
      [] kind = "Str" -> ByteStrings

\* the program parse_data returned has a main block of the one command
\* ConstantLoad(kind, v) and no function block
LoadsOneConstant(kind, v) ==
    /\ status = "loaded"
    /\ prog # <<>>
    /\ Len(prog[1].body.code) = 1
    /\ prog[1].func = <<>>
    /\ prog[1].body.code[1].op = "ConstantLoad"
    /\ prog[1].body.code[1].kind = kind
    /\ IF kind = "Str"
       THEN LET h == prog[1].body.code[1].arg IN
            /\ h \in DOMAIN string_memory.buff
            /\ get_string(string_memory, h) = v
            /\ string_memory.buff[h].str_type = "Static"
       ELSE prog[1].body.code[1].arg = v

\* C23: a stream made of an INIT header and one constant load with its whole
\* payload loads to a main block of exactly that one command and no function
\* block; the constant is the encoded value, and for a string the handle in
\* the command resolves in the returned pool to the encoded characters, in
\* a Static entry
C23_ConstantLoadRoundTrip ==
    \A kind \in Kinds :
        \A v \in EncodedConstants(kind) :
            (data = InitHeader(MemorySize(1, 2, 3, 4)) \o EncodeConstant(kind, v)
             /\ status # "load")
            => LoadsOneConstant(kind, v)

\* C23: the header and the string constant have been loaded
C23_Witness ==
    /\ data = InitHeader(MemorySize(1, 2, 3, 4)) \o EncodeConstant("Str", <<97, 0>>)
    /\ LoadsOneConstant("Str", <<97, 0>>)
    /\ index = Len(data)


\* ------------------------------------------------- C24 .. C27
\* the length of the run of chars that are not whitespace at the start of s
RECURSIVE RunLength(_)
RunLength(s) ==
    IF s = <<>> \/ is_ascii_whitespace(s[1]) THEN 0 ELSE 1 + RunLength(Tail(s))

\* the maximal runs of chars of s that are not whitespace, left to right
RECURSIVE TokensOf(_)
TokensOf(s) ==
    IF s = <<>> THEN <<>>
    ELSE IF is_ascii_whitespace(s[1]) THEN TokensOf(Tail(s))
    ELSE <<SubSeq(s, 1, RunLength(s))>> \o TokensOf(SubSeq(s, RunLength(s) + 1, Len(s)))

\* every call made so far was a call of name
OnlyCalls(name) == \A j \in DOMAIN returned : returned[j].call = name

\* C24: successive next_token calls on one line buffer return the maximal
\* runs of non-whitespace characters of the line, left to right, each once,
\* whatever whitespace leads, trails or repeats, and None from then on
C24_TokensAreMaximalRuns ==
    OnlyCalls("next_token") =>
        \A j \in DOMAIN returned :
            /\ ~returned[j].panics
            /\ returned[j].output =
                  IF j <= Len(TokensOf(data)) THEN <<TokensOf(data)[j]>> ELSE <<>>


\* the tokens the calls before the j-th one delivered, in order
RECURSIVE Delivered(_)
Delivered(j) ==
    IF j <= 1 THEN <<>>
    ELSE Delivered(j - 1)
         \o (IF returned[j - 1].call = "next_token" THEN returned[j - 1].output ELSE <<>>)

\* the j-th call is the first get_buffer, and the calls before it delivered
\* at least one token
FirstStringRead(j) ==
    /\ j \in DOMAIN returned
    /\ returned[j].call = "get_buffer"
    /\ \A i \in 1 .. j - 1 : returned[i].call = "next_token" /\ ~returned[i].panics
    /\ Delivered(j) # <<>>

\* the chars of s that are not whitespace
NotWhitespace(c) == ~is_ascii_whitespace(c)

NonBlank(s) == SelectSeq(s, NotWhitespace)

\* what is left of data after the tokens delivered: the chars after the
\* prefix of data that ends with the last char delivered and holds, between
\* whitespace, the chars delivered and no other
RemainderAfter(tokens) ==
    {SubSeq(data, p + 1, Len(data)) :
        p \in {q \in 1 .. Len(data) : /\ ~is_ascii_whitespace(data[q])
                                      /\ NonBlank(SubSeq(data, 1, q)) = Concat(tokens)}}

\* C25: once tokens of a line have been consumed, a string read returns
\* exactly what is left of the line after the last consumed token (None
\* when nothing is left) and empties the buffer: every later next_token and
\* get_buffer returns None
C25_StringReadTakesRemainder ==
    \A j \in DOMAIN returned :
        FirstStringRead(j) =>
            /\ ~returned[j].panics
            /\ \E rest \in RemainderAfter(Delivered(j)) :
                  returned[j].output = IF rest = <<>> THEN <<>> ELSE <<rest>>
            /\ \A i \in j + 1 .. Len(returned) :
                  ~returned[i].panics /\ returned[i].output = <<>>

\* C25: the calls of test_string_buffer_full_string on the line "1 11"
C25_Witness ==
    /\ data = <<"1", " ", "1", "1">>
    /\ returned = <<Call("next_token", <<<<"1">>>>),
                    Call("get_buffer", <<<<" ", "1", "1">>>>),
                    Call("next_token", <<>>),
                    Call("get_buffer", <<>>)>>
    /\ reader.buff = <<>>

\* the chars of the reader's buffer that no read has consumed yet
Unread ==
    IF reader.buff = <<>> \/ ~is_char_boundary(reader.buff[1], reader.begin) THEN <<>>
    ELSE slice(reader.buff[1], reader.begin, str_len(reader.buff[1]))

\* a line of the standard input as a program sees it, without its newline
StripNewline(line) ==
    IF line # <<>> /\ line[Len(line)] = "\n" THEN string_pop(line) ELSE line

\* this step is an Input(Str) that delivered a string
StringReadStep ==
    /\ cmd' = Command("Input", "Str", 0)
    /\ executed' = executed + 1
    /\ status' = "run"

\* C26: a string read returns the rest of the buffer only when a token is
\* still unread on it; with no buffer, a consumed buffer or a rest of
\* whitespace only, it takes the next line of the standard input and returns
\* that line
C26_FreshLineUnlessTokenUnread ==
    [][StringReadStep =>
          IF NonBlank(Unread) # <<>>
          THEN /\ issued'[Len(issued')].string = Unread
               /\ stdin' = stdin
          ELSE /\ stdin # <<>>
               /\ issued'[Len(issued')].string = StripNewline(Head(stdin))
               /\ stdin' = Tail(stdin)]_vars

\* this step is the command Input(k)
InputStep(k) ==
    /\ cmd' = Command("Input", k, 0)
    /\ executed' = executed + 1

\* the tokens a typed read has before it: those unread on the buffer, then
\* those of the lines of the standard input
Pending == TokensOf(Unread \o <<"\n">> \o Concat(stdin))

\* the read of Input(k) fails: no token (for a string, no line and nothing
\* left on the buffer) before the standard input ends, or a token that is
\* no value of kind k
ReadFails(k) ==
    IF k = "Str" THEN Unread = <<>> /\ stdin = <<>>
    ELSE Pending = <<>> \/ ~parse_token(k, Pending[1]).ok

\* the error of a failing read
ErrorOf(k) ==
    IF k = "Str" \/ Pending = <<>> THEN EOF ELSE to_read_error(k, Pending[1])

\* C27: an Input whose read fails ends the run with ReadError: no operand
\* stack gets a value and no command follows; a typed read skips the lines
\* without tokens and reports EOF only when no line is left
C27_FailedReadEndsRun ==
    [][/\ \A k \in {"Integer", "Real", "Bool", "Str"} :
             InputStep(k) /\ ReadFails(k) =>
                /\ status' = "read_error"
                /\ returned' = <<ErrorOf(k)>>
                /\ UNCHANGED <<int_stack, real_stack, bool_stack, str_stack>>
       /\ \A k \in {"Integer", "Real", "Bool"} :
             InputStep(k) /\ returned' = <<EOF>> => Pending = <<>> /\ stdin' = <<>>
       /\ status # "read_error"]_vars

\* ------------------------------------------------- C28
\* this step fetched and dispatched the command Control(j, t) of the code
JumpStep(j) ==
    /\ executed' = executed + 1
    /\ cmd'.op = j

\* C28: a jump whose label is in the labels of the current block (and, for
\* JumpTrue and JumpFalse, that finds a boolean on the stack) continues the
\* run: Jump at labels[t]; JumpTrue and JumpFalse pop one boolean and
\* continue at labels[t] exactly when it is true (JumpTrue) or false
\* (JumpFalse), else at the command after the jump; the block, the call
\* stack and the other stacks are as before
C28_JumpsFollowLabels ==
    [][\A j \in {"Jump", "JumpTrue", "JumpFalse"} :
          LET labels == prog[1].body.labels
              t == cmd'.arg
              b == bool_stack[Len(bool_stack)]
          IN
          (/\ JumpStep(j)
           /\ t \in DOMAIN labels
           /\ j = "Jump" \/ bool_stack # <<>>) =>
              /\ status' = "run"
              /\ index' = IF j = "Jump" \/ b = (j = "JumpTrue") THEN labels[t] ELSE index + 1
              /\ bool_stack' = IF j = "Jump" THEN bool_stack
                               ELSE SubSeq(bool_stack, 1, Len(bool_stack) - 1)
              /\ UNCHANGED <<curr_block, stack_vect, next_record, str_stack, int_stack,
                             real_stack, for_loop_stack, global_memory>>
      ]_vars

\* C28 witness: in the code Label 0, ConstantLoad(true), JumpTrue 0 the jump
\* has popped true and the run stands at the label again
C28_Witness ==
    /\ status = "run"
    /\ Len(Code) = 3
    /\ Code[1].op = "Label" /\ Code[1].arg = 0
    /\ Code[2].op = "ConstantLoad" /\ Code[2].kind = "Bool" /\ Code[2].arg = TRUE
    /\ Code[3].op = "JumpTrue" /\ Code[3].arg = 0
    /\ cmd.op = "JumpTrue"
    /\ executed = 3
    /\ index = 0
    /\ bool_stack = <<>>

\* ------------------------------------------------- C29
\* this step fetched and dispatched the command ForControl(ctrl)
ForControlStep(ctrl) ==
    /\ executed' = executed + 1
    /\ cmd'.op = "ForControl"
    /\ cmd'.kind = ctrl

\* C29: New moves the top of the integer stack onto the for-loop stack; Check
\* pushes a copy of the top of the for-loop stack on the integer stack and
\* leaves the for-loop stack as it is; End removes the top of the for-loop
\* stack and leaves the integer stack as it is.  So what an inner New puts
\* on is what its End takes off, and the Check after it yields the counter
\* of the enclosing loop.
C29_ForLoopStack ==
    [][/\ (ForControlStep("New") /\ int_stack # <<>>) =>
             /\ status' = "run"
             /\ for_loop_stack' = Append(for_loop_stack, int_stack[Len(int_stack)])
             /\ int_stack' = SubSeq(int_stack, 1, Len(int_stack) - 1)
       /\ (ForControlStep("Check") /\ for_loop_stack # <<>>) =>
             /\ status' = "run"
             /\ int_stack' = Append(int_stack, for_loop_stack[Len(for_loop_stack)])
             /\ for_loop_stack' = for_loop_stack
       /\ (ForControlStep("End") /\ for_loop_stack # <<>>) =>
             /\ status' = "run"
             /\ for_loop_stack' = SubSeq(for_loop_stack, 1, Len(for_loop_stack) - 1)
             /\ int_stack' = int_stack
       /\ (ForControlStep("New") \/ ForControlStep("Check") \/ ForControlStep("End")) =>
             UNCHANGED <<bool_stack, real_stack, str_stack, curr_block, stack_vect>>
      ]_vars

\* C29 witness: the code 1, New, 2, New, End, Check has run: the inner loop
\* with counter 2 is closed, and Check has put the counter 1 of the outer
\* loop, which is still open, on the integer stack
C29_Witness ==
    /\ status = "run"
    /\ Code = <<ForTable[1], ForTable[3], ForTable[2], ForTable[3], ForTable[5], ForTable[4]>>
    /\ executed = 6
    /\ index = 6
    /\ int_stack = <<1>>
    /\ for_loop_stack = <<1>>

\* ------------------------------------------------- C30
\* this step fetched and dispatched the binary command unit(op)
BinaryStep(unit, op) ==
    /\ executed' = executed + 1
    /\ cmd'.op = unit
    /\ cmd'.kind = op

\* the element below the top, the top, and what is below both
Left(stack) == stack[Len(stack) - 1]

Right(stack) == stack[Len(stack)]

Below(stack) == SubSeq(stack, 1, Len(stack) - 2)

\* left op right for booleans, with false < true
BoolRel(op, left, right) ==
    CASE op = "GreatEq" -> left \/ ~right
      [] op = "Greater" -> left /\ ~right
      [] op = "LessEq" -> ~left \/ right
      [] op = "Less" -> ~left /\ right
      [] op = "Equal" -> left = right
      [] op = "NotEqual" -> left # right

\* left op right for integers
IntRel(op, left, right) ==
    CASE op = "GreatEq" -> left >= right
      [] op = "Greater" -> left > right
      [] op = "LessEq" -> left <= right
      [] op = "Less" -> left < right
      [] op = "Equal" -> left = right
      [] op = "NotEqual" -> left # right

\* C30: a binary command that finds two operands takes the top of its stack
\* as the right operand and the element below as the left one, removes both
\* and pushes left op right: on its own stack for Add, Sub, Mul and Div, on
\* the bool stack for a comparison.  Booleans are ordered false < true.  An
\* integer operation ends the run only where left op right is no i32 or no
\* number at all.
C30_TopIsRightOperand ==
    [][/\ \A op \in MathOps :
             (BinaryStep("Integer", op) /\ Len(int_stack) >= 2) =>
                LET r == i32_op(op, Left(int_stack), Right(int_stack)) IN
                IF status' = "panic" THEN r.panics
                ELSE /\ \E v \in r.values : int_stack' = Append(Below(int_stack), v)
                     /\ UNCHANGED <<real_stack, bool_stack, str_stack>>
       /\ \A op \in MathOps :
             (BinaryStep("Real", op) /\ Len(real_stack) >= 2) =>
                /\ status' = "run"
                /\ real_stack' = Append(Below(real_stack),
                                        f64_op(op, Left(real_stack), Right(real_stack)))
                /\ UNCHANGED <<int_stack, bool_stack, str_stack>>
       /\ \A op \in RelOps :
             (BinaryStep("Integer", op) /\ Len(int_stack) >= 2) =>
                /\ status' = "run"
                /\ int_stack' = Below(int_stack)
                /\ bool_stack' = Append(bool_stack, IntRel(op, Left(int_stack), Right(int_stack)))
                /\ UNCHANGED <<real_stack, str_stack>>
       /\ \A op \in RelOps :
             (BinaryStep("Real", op) /\ Len(real_stack) >= 2) =>
                /\ status' = "run"
                /\ real_stack' = Below(real_stack)
                /\ bool_stack' = Append(bool_stack,
                       binary_rel_operation_of(op, "Real", Left(real_stack), Right(real_stack)))
                /\ UNCHANGED <<int_stack, str_stack>>
       /\ \A op \in RelOps :
             (BinaryStep("BoolCompare", op) /\ Len(bool_stack) >= 2) =>
                /\ status' = "run"
                /\ bool_stack' = Append(Below(bool_stack),
                                        BoolRel(op, Left(bool_stack), Right(bool_stack)))
                /\ UNCHANGED <<int_stack, real_stack, str_stack>>
       /\ \A op \in RelOps :
             (BinaryStep("StrCompare", op) /\ Len(str_stack) >= 2) =>
                /\ status' = "run"
                /\ str_stack' = Below(str_stack)
                /\ bool_stack' = Append(bool_stack,
                       binary_rel_operation(op, get_string(string_memory, Left(str_stack)),
                                            get_string(string_memory, Right(str_stack))))
                /\ UNCHANGED <<int_stack, real_stack>>
      ]_vars

\* C30 witness: 0 was pushed, then 2, and Sub has left 0 - 2 on the integer
\* stack
C30_Witness ==
    /\ status = "run"
    /\ executed = 3
    /\ cmd = Command("Integer", "Sub", 0)
    /\ int_stack = <<-2>>

\* ------------------------------------------------- C31
\* C31: Add, Sub and Mul on two integers never end the run and leave the
\* result reduced modulo 2^32 into the range of i32; Div, where the quotient
\* is an i32, leaves the quotient truncated toward zero
C31_IntegerOverflowWraps ==
    [][\A op \in MathOps :
          (/\ BinaryStep("Integer", op)
           /\ Len(int_stack) >= 2
           /\ op = "Div" => ~div_panics(Left(int_stack), Right(int_stack))) =>
             /\ status' = "run"
             /\ int_stack' = Append(Below(int_stack),
                   CASE op = "Add" -> wrapping_add(Left(int_stack), Right(int_stack))
                     [] op = "Sub" -> wrapping_sub(Left(int_stack), Right(int_stack))
                     [] op = "Mul" -> wrapping_mul(Left(int_stack), Right(int_stack))
                     [] op = "Div" -> i32_div(Left(int_stack), Right(int_stack)))
      ]_vars

\* ------------------------------------------------- C32
\* how often h is one of the two operands of a StrCompare
Operand(h) ==
    (IF Left(str_stack) = h THEN 1 ELSE 0) + (IF Right(str_stack) = h THEN 1 ELSE 0)

\* C32: a StrCompare that finds two handles on the string stack completes:
\* it pops both, releases one reference of the entry for each pop (a Static
\* entry keeps its count, a count stays at 0), removes no entry, and pushes
\* the comparison of the two contents, left operand below the top; equal
\* contents compare Equal
C32_StrCompareResolvesOperands ==
    [][\A op \in RelOps :
          (/\ Dispatched("StrCompare")
           /\ cmd'.kind = op
           /\ Len(str_stack) >= 2) =>
             /\ status' = "run"
             /\ str_stack' = Below(str_stack)
             /\ {Left(str_stack), Right(str_stack)} \subseteq DOMAIN Buff'
             /\ \A h \in DOMAIN Buff' :
                   /\ Buff'[h].string = Buff[h].string
                   /\ RefCount(string_memory', h) =
                         IF IsDynamic(string_memory, h)
                         THEN IF RefCount(string_memory, h) >= Operand(h)
                              THEN RefCount(string_memory, h) - Operand(h)
                              ELSE 0
                         ELSE RefCount(string_memory, h)
             /\ bool_stack' = Append(bool_stack,
                   binary_rel_operation(op, Buff'[Left(str_stack)].string,
                                        Buff'[Right(str_stack)].string))
             /\ (Buff'[Left(str_stack)].string = Buff'[Right(str_stack)].string) =>
                   bool_stack'[Len(bool_stack')] = (op \in {"Equal", "GreatEq", "LessEq"})
      ]_vars

\* ------------------------------------------------- C33
\* an Input(Str) that read a line
StringInputStep == Executed("Input") /\ cmd'.kind = "Str" /\ status' = "run"

\* C33: after a successful Input(Str) the pool holds one more entry, Dynamic,
\* under a handle that named no entry before and was never issued, with
\* refcount 1; the handle is the new top of the string stack, and every
\* other entry left by the clean of the command is as it was
C33_InputStringHeldOnce ==
    [][StringInputStep =>
          LET h == str_stack'[Len(str_stack')]
              sm == clean(string_memory)
          IN
          /\ str_stack' = Append(str_stack, h)
          /\ h \notin DOMAIN Buff
          /\ \A i \in 1..Len(issued) : issued[i].key # h
          /\ DOMAIN Buff' = DOMAIN sm.buff \cup {h}
          /\ IsDynamic(string_memory', h)
          /\ RefCount(string_memory', h) = 1
          /\ \A k \in DOMAIN sm.buff : Buff'[k] = sm.buff[k]
      ]_vars

\* C33 happens: a line was read while an earlier line, held by the stack and
\* by a cell, and a Static entry are in the pool
C33_Witness ==
    /\ status = "run"
    /\ cmd.op = "Input"
    /\ Len(str_stack) >= 1
    /\ \E k \in DOMAIN Buff : IsDynamic(string_memory, k) /\ RefCount(string_memory, k) = 2
    /\ \E k \in DOMAIN Buff : ~IsDynamic(string_memory, k)
    /\ IsDynamic(string_memory, str_stack[Len(str_stack)])
    /\ RefCount(string_memory, str_stack[Len(str_stack)]) = 1

\* ------------------------------------------------- engine.rs: calls
\* CallSpec: run_program on programs of a main block and one function whose
\* codes are made of NewRecord, Call and Ret
CallTable ==
    <<Command("NewRecord", "none", 0), Command("Call", "none", 0), Command("Ret", "none", 0)>>

CallCodes ==
    UNION {[1 .. n -> {CallTable[i] : i \in DOMAIN CallTable}] : n \in 0 .. MaxCallCode}

CallInit ==
    /\ status = "run"
    /\ curr_block = 0
    /\ index = 0
    /\ cmd = NoCommand
    /\ string_memory = StringMemory_new
    /\ str_stack = <<>>
    /\ bool_stack = <<>>
    /\ int_stack = <<>>
    /\ real_stack = <<>>
    /\ prog_mem = [main |-> MemorySize(0, 0, 0, 0), func |-> <<MemorySize(0, 0, 0, 0)>>]
    /\ global_memory = EngineMemory_new(MemorySize(0, 0, 0, 0))
    /\ stack_vect = <<>>
    /\ next_record = <<>>
    /\ issued = <<>>
    /\ executed = 0
    /\ factory = <<>>
    /\ data = <<>>
    /\ reader = StringBuffer_new
    /\ stdin = <<>>
    /\ for_loop_stack = <<>>
    /\ returned = <<>>
    /\ \E body \in CallCodes, f \in CallCodes :
          prog = <<[body |-> Block_new(body), func |-> <<Block_new(f)>>]>>

\* curr_block: 0 is &prog.body, f + 1 is &prog.func[f]
CurrBlock == IF curr_block = 0 THEN prog[1].body ELSE prog[1].func[curr_block]

\* while index < curr_block.code.len(): cmd = &curr_block.code[index];
\* index += 1; string_memory.clean().  The actions set index.
CallFetch ==
    /\ status = "run"
    /\ index < Len(CurrBlock.code)
    /\ executed < MaxCallRun
    /\ executed' = executed + 1
    /\ cmd' = CurrBlock.code[index + 1]
    /\ UNCHANGED <<str_stack, bool_stack, int_stack, real_stack, prog_mem, global_memory,
                   issued, factory, prog, data, reader, stdin, for_loop_stack, returned>>

\* Command::NewRecord(f_id)
CallNewRecord ==
    LET c == CurrBlock.code[index + 1] IN
    /\ CallFetch
    /\ c.op = "NewRecord"
    /\ index' = index + 1
    /\ string_memory' = clean(string_memory)
    /\ IF next_record # <<>>
       THEN /\ status' = "panic"
            /\ UNCHANGED <<curr_block, stack_vect, next_record>>
       ELSE /\ status' = "run"
            /\ next_record' = <<Record_new(curr_block, prog_mem.func[c.arg + 1])>>
            /\ UNCHANGED <<curr_block, stack_vect>>

\* Command::Control(ControlFlow::Call, addr)
CallCall ==
    LET c == CurrBlock.code[index + 1] IN
    /\ CallFetch
    /\ c.op = "Call"
    /\ status' = "run"
    /\ string_memory' = clean(string_memory)
    /\ IF next_record # <<>>
       THEN /\ curr_block' = c.arg + 1
            /\ index' = 0
            /\ stack_vect' = Append(stack_vect,
                                    [next_record[1] EXCEPT !.return_index = index + 1])
            /\ next_record' = <<>>
       ELSE /\ index' = index + 1
            /\ UNCHANGED <<curr_block, stack_vect, next_record>>

\* Command::Control(ControlFlow::Ret, _)
CallRet ==
    LET c == CurrBlock.code[index + 1] IN
    /\ CallFetch
    /\ c.op = "Ret"
    /\ IF stack_vect = <<>>
       THEN /\ status' = "panic"
            /\ index' = index + 1
            /\ string_memory' = clean(string_memory)
            /\ UNCHANGED <<curr_block, stack_vect, next_record>>
       ELSE LET top == stack_vect[Len(stack_vect)] IN
            /\ status' = "run"
            /\ index' = top.return_index
            /\ curr_block' = top.return_block
            /\ stack_vect' = SubSeq(stack_vect, 1, Len(stack_vect) - 1)
            /\ string_memory' = remove_strings(clean(string_memory), top.func_mem.str_mem)
            /\ UNCHANGED next_record

\* index < curr_block.code.len() is false: Ok(())
CallEnd ==
    /\ status = "run"
    /\ index >= Len(CurrBlock.code)
    /\ status' = "end"
    /\ UNCHANGED <<curr_block, index, cmd, string_memory, str_stack, bool_stack, int_stack,
                   real_stack, prog_mem, global_memory, stack_vect, next_record, issued,
                   executed, factory, prog, data, reader, stdin, for_loop_stack, returned>>

CallNext ==
    \/ CallNewRecord
    \/ CallCall
    \/ CallRet
    \/ CallEnd

CallSpec == CallInit /\ [][CallNext]_vars

\* ------------------------------------------------- C34
\* C34, as claimed: whenever the engine is about to execute a command, the
\* command is one of the main body exactly when the call stack is empty.
C34_MainBlockIffNoFrame ==
    (status = "run" /\ index < Len(CurrBlock.code)) =>
        (curr_block = 0 <=> stack_vect = <<>>)

\* ------------------------------------------------- C35
\* C35, as claimed: parse_data ends with a program or with a LoadError on
\* every byte buffer; the load never aborts.
C35_LoaderIsTotal ==
    status # "panic"

====
